---- MODULE Spec2Model ----
(***************************************************************************)
(* Recova: the recommendation core of the e-commerce backend.              *)
(*                                                                         *)
(*   backend/app/algorithms/collaborative.py   user-based collaborative    *)
(*   backend/app/algorithms/content_based.py   content-based similarity    *)
(*   backend/app/api/recommendations.py        endpoints, lazy singletons  *)
(*   backend/app/api/interactions.py           interaction tracking        *)
(*                                                                         *)
(* Numbers.  Similarities are floats in the source.  Here they are fixed   *)
(* point: a user similarity is a whole number of 1/SimScale, a blended     *)
(* item similarity a whole number of 1/(10*SimScale).  The floor of the    *)
(* real value is taken, so equal reals stay equal and the order of reals   *)
(* is never inverted.  numpy's nan is the value NaN, with IEEE             *)
(* comparisons (every comparison with NaN is false).  Python's None is     *)
(* the value None where a number could stand, and the empty tuple <<>>     *)
(* where an object could stand (<<x>> is the object x).                    *)
(*                                                                         *)
(* Sorting.  sorted() and list.sort() of Python are stable.  The order in  *)
(* which numpy/pandas sorts and SQL ORDER BY leave rows with equal keys is *)
(* not specified: every such sort takes a tie order, "asc" or "desc" by    *)
(* position, which the calling action picks freely.                        *)
(*                                                                         *)
(* Style.  A method is a chain of operators, one per stretch of its code,  *)
(* each handing what it computed to the next as an argument.               *)
(***************************************************************************)
EXTENDS Integers, Sequences, FiniteSets, TLC

VARIABLES
    products,                   \* table products: id -> row
    interactions,               \* table interactions: rows in insertion order
    collaborative_recommender,  \* module global of api/recommendations.py
    content_recommender,        \* module global of api/recommendations.py
    last,                       \* the last call made and what it returned
    handlers                    \* requests in flight: where each handler stands

vars == <<products, interactions, collaborative_recommender,
          content_recommender, last, handlers>>

(***************************************************************************)
(* Bounds of the model                                                     *)
(***************************************************************************)
MaxTrack == 1          \* interactions tracked on top of the loaded data
MaxLimit == 2          \* largest n / limit a caller asks for
SimScale == 100        \* fixed-point unit of a similarity
MaxSeedHistory == 11   \* longest loaded history of one user (SpecContent)
MaxSeedRows == 3       \* longest data set of SpecMatrix
MaxRecs == 2           \* longest list handed to _combine_recommendations (SpecCombine)
MaxHandlers == 2       \* requests in flight at once (SpecRace)

UserIds == {1, 2, 3}
QueryUserIds == UserIds \cup {999}
TieOrders == {"asc", "desc"}

(***************************************************************************)
(* Values                                                                  *)
(***************************************************************************)
None == -2
NaN == -1

IsNone(x) == x = <<>>
Some(x) == <<x>>
Get(x) == x[1]

Min(S) == CHOOSE x \in S : \A y \in S : x <= y
Max(S) == CHOOSE x \in S : \A y \in S : y <= x

RECURSIVE SumOver(_, _)
SumOver(f, S) ==
    IF S = {} THEN 0
    ELSE LET x == CHOOSE y \in S : TRUE
         IN  f[x] + SumOver(f, S \ {x})

Range(s) == {s[i] : i \in 1..Len(s)}

Take(s, n) == SubSeq(s, 1, IF n < Len(s) THEN n ELSE Len(s))

\* The same sequence / function, with every element computed once (TLC
\* otherwise computes an element of [x \in S |-> e] at each application)
AsSeq(f) == f \o <<>>
Table(f) == f @@ <<>>

\* The elements of S by key descending; among equal keys by position
\* ascending (tie = "asc") or descending (tie = "desc").
Before(key, tie, y, x) ==
    \/ key[y] > key[x]
    \/ key[y] = key[x] /\ (IF tie = "asc" THEN y < x ELSE y > x)

RankIn(S, key, tie, x) == Cardinality({y \in S : Before(key, tie, y, x)}) + 1

Ranked(S, key, tie) ==
    [k \in 1..Cardinality(S) |-> CHOOSE x \in S : RankIn(S, key, tie, x) = k]

SortDesc(S, key, tie) == AsSeq(Ranked(S, Table(key), tie))

\* sorted(seq, key=..., reverse=True): stable, equal keys keep their order.
StableSortDesc(seq, key) ==
    LET order == SortDesc(1..Len(seq), [i \in 1..Len(seq) |-> key[seq[i]]], "asc")
    IN  AsSeq([k \in 1..Len(seq) |-> seq[order[k]]])

\* floor(scale * num / sqrt(den2)) for 0 <= num, num^2 <= den2, den2 > 0
ScaledRatio(scale, num, den2) ==
    CHOOSE k \in 0..scale :
        /\ k * k * den2 <= (scale * num) * (scale * num)
        /\ (scale * num) * (scale * num) < (k + 1) * (k + 1) * den2

(***************************************************************************)
(* collaborative.py: the user-item matrix                                  *)
(***************************************************************************)
\* SELECT ... CASE WHEN ... END AS score: no branch for any other type
ScoreOf(row) ==
    CASE row.interaction_type = "purchase" -> 5
      [] row.interaction_type = "rating"   -> row.rating
      [] row.interaction_type = "view"     -> 1
      [] OTHER                             -> None

\* aggfunc='max' over the scores of one (user, product) group, in row order;
\* None (NULL, NaN) is skipped, an all-NaN group has no value.
LastOf(a, b) == IF b # None THEN b ELSE a

MaxOf(a, b) == IF a = None THEN b ELSE IF b = None \/ a > b THEN a ELSE b

RECURSIVE AggMax(_)
AggMax(scores) ==
    IF scores = <<>> THEN None ELSE MaxOf(Head(scores), AggMax(Tail(scores)))

ScoresOf(group) == AsSeq([i \in 1..Len(group) |-> ScoreOf(group[i])])

GroupScores(rows, u, p) ==
    LET InGroup(r) == r.user_id = u /\ r.product_id = p
    IN  ScoresOf(SelectSeq(rows, InGroup))

\* groupby(['user_id', 'product_id']).agg('max')
Grouped(rows) ==
    Table([g \in {<<rows[i].user_id, rows[i].product_id>> : i \in 1..Len(rows)} |->
              AggMax(GroupScores(rows, g[1], g[2]))])

\* agged.dropna(how='all'), unstack, fillna(fill_value=0): a group whose
\* aggregate is NaN is dropped before the table is laid out.
Unstack(agged) ==
    LET groups == {g \in DOMAIN agged : agged[g] # None}
    IN  [index   |-> {g[1] : g \in groups},
         columns |-> {g[2] : g \in groups},
         cell    |-> Table([c \in {g[1] : g \in groups} \X {g[2] : g \in groups} |->
                              IF c \in groups THEN agged[c] ELSE 0])]

build_user_item_matrix(rows) == Unstack(Grouped(rows))

(***************************************************************************)
(* collaborative.py: user similarity                                       *)
(***************************************************************************)
Dot(m, u, v) ==
    SumOver([p \in m.columns |-> m.cell[<<u, p>>] * m.cell[<<v, p>>]], m.columns)

\* sklearn cosine_similarity of two rows from their dot products u.v, u.u
\* and v.v; normalize() leaves a zero row as it is
CosineOf(uv, uu, vv) ==
    IF uu = 0 \/ vv = 0 THEN 0
    ELSE ScaledRatio(SimScale, uv, uu * vv)

Cosine(m, u, v) == CosineOf(Dot(m, u, v), Dot(m, u, u), Dot(m, v, v))

\* cosine_similarity(X) refuses an array with no row (check_array)
CanCompareRows(m) == m.index # {}

\* Binary floating point.  A cosine of exactly 1 is computed as the dot
\* product of two normalised rows.  A row with one entry normalises to the
\* exact unit vector and the product is exactly 1.0; a row with several
\* entries normalises to rounded values and the product is 1.0 or a
\* neighbour of it (0.9999999999999998 for the row [1, 1]).  Which of them
\* is left open: fp is the set of pairs whose result is not 1.0.  X * X^T
\* adds the same products in the same order for (u, v) and (v, u).
NonZero(m, u) == {p \in m.columns : m.cell[<<u, p>>] # 0}

Roundable(m) ==
    {c \in m.index \X m.index :
        Cosine(m, c[1], c[2]) = SimScale /\ Cardinality(NonZero(m, c[1])) > 1}

Roundings(m) == {fp \in SUBSET Roundable(m) : \A c \in fp : <<c[2], c[1]>> \in fp}

\* The similarity DataFrame: cell is the value in 1/SimScale, inexact the
\* pairs whose float is a neighbour of 1.0 and not 1.0
SimilarityOf(m, fp) ==
    [cell    |-> Table([c \in m.index \X m.index |-> Cosine(m, c[1], c[2])]),
     inexact |-> fp \cap Roundable(m)]

(***************************************************************************)
(* The store                                                               *)
(***************************************************************************)
ProductIdsOf(prods) == DOMAIN prods

\* COUNT(i.id) of the LEFT JOIN: the rows of a product, of every type
InteractionCount(rows, p) == Cardinality({i \in 1..Len(rows) : rows[i].product_id = p})

RatingKey(prods, p) == IF prods[p].rating = None THEN 99 ELSE prods[p].rating

\* The ranking with JOIN in place of LEFT JOIN: products without an
\* interaction have no row
JoinedIds(prods, rows, n, sqltie) ==
    Take(SortDesc({p \in ProductIdsOf(prods) : InteractionCount(rows, p) > 0},
                  [p \in ProductIdsOf(prods) |->
                      InteractionCount(rows, p) * 100 + RatingKey(prods, p)],
                  sqltie), n)

\* ORDER BY interaction_count DESC, p.rating DESC (PostgreSQL: NULLS FIRST
\* under DESC) LIMIT n; rows equal on both keys come in either order.
PopularIds(prods, rows, n, sqltie) ==
    Take(SortDesc(ProductIdsOf(prods),
                  [p \in ProductIdsOf(prods) |->
                      InteractionCount(rows, p) * 100 + RatingKey(prods, p)],
                  sqltie), n)

Entry(p, score) == [product_id |-> p, score |-> score]

EntriesOf(ids, score) == AsSeq([k \in 1..Len(ids) |-> Entry(ids[k], score)])

\* CollaborativeFilteringRecommender._get_popular_products
popular_products(prods, rows, n, sqltie) ==
    EntriesOf(PopularIds(prods, rows, n, sqltie), None)

(***************************************************************************)
(* collaborative.py: the recommender                                       *)
(* A method returns [raised, self, out (, path)]: whether it raised, the   *)
(* instance as it leaves it, and what it returned.                         *)
(***************************************************************************)
NewCollaborative == [user_item_matrix |-> <<>>, user_similarity_matrix |-> <<>>]

cf_build_user_item_matrix(self, rows) ==
    [self EXCEPT !.user_item_matrix = Some(build_user_item_matrix(rows))]

SimilarityStep(self, fp) ==
    IF CanCompareRows(Get(self.user_item_matrix))
    THEN [raised |-> FALSE,
          self   |-> [self EXCEPT !.user_similarity_matrix =
                                     Some(SimilarityOf(Get(self.user_item_matrix), fp))]]
    ELSE [raised |-> TRUE, self |-> self]

calculate_user_similarity(self, rows, fp) ==
    SimilarityStep(IF IsNone(self.user_item_matrix)
                   THEN cf_build_user_item_matrix(self, rows) ELSE self, fp)

PairsOf(ids, sim, user_id) ==
    AsSeq([k \in 1..Len(ids) |-> <<ids[k], sim[<<ids[k], user_id>>]>>])

\* user_similarities.sort_values(ascending=False)[1:n+1]: the first row of
\* the sorted column is dropped, whichever user it is.
SortedSkippingFirst(index, sim, user_id, n, tie) ==
    PairsOf(Take(Tail(SortDesc(index, [v \in index |-> sim[<<v, user_id>>]], tie)), n),
            sim, user_id)

SimilarUsersStep(c, user_id, n, tie) ==
    IF c.raised THEN [raised |-> TRUE, self |-> c.self, out |-> <<>>]
    ELSE [raised |-> FALSE, self |-> c.self,
          out |-> IF user_id \notin Get(c.self.user_item_matrix).index THEN <<>>
                  ELSE SortedSkippingFirst(Get(c.self.user_item_matrix).index,
                                           Get(c.self.user_similarity_matrix).cell,
                                           user_id, n, tie)]

\* The method without its build check: no similarity matrix, no neighbour
UncheckedSimilarUsers(self, rows, user_id, n, tie, fp) ==
    IF IsNone(self.user_similarity_matrix)
    THEN [raised |-> FALSE, self |-> self, out |-> <<>>]
    ELSE SimilarUsersStep([raised |-> FALSE, self |-> self], user_id, n, tie)

get_similar_users(self, rows, user_id, n, tie, fp) ==
    SimilarUsersStep(IF IsNone(self.user_similarity_matrix)
                     THEN calculate_user_similarity(self, rows, fp)
                     ELSE [raised |-> FALSE, self |-> self],
                     user_id, n, tie)

NeighbourPool == 50
DefaultMinSimilarity == SimScale \div 10

RatedBy(m, v) == {p \in m.columns : m.cell[<<v, p>>] > 0}

InIdOrder(S) == SortDesc(S, [p \in S |-> 0], "asc")

\* The keys of product_scores in the order the loops first meet them:
\* neighbours in list order, each neighbour's products in column order,
\* the products of the target user skipped.
Candidates(m, user_id, neighbours) ==
    LET NewOf(k) == (RatedBy(m, neighbours[k][1]) \ RatedBy(m, user_id))
                      \ UNION {RatedBy(m, neighbours[j][1]) : j \in 1..(k - 1)}
        FirstMet[k \in 0..Len(neighbours)] ==
            IF k = 0 THEN <<>> ELSE FirstMet[k - 1] \o InIdOrder(NewOf(k))
    IN  FirstMet[Len(neighbours)]

\* The accumulation without the similarity weight
UnweightedScores(m, neighbours, cands) ==
    Table([p \in Range(cands) |->
              SumOver([k \in 1..Len(neighbours) |-> m.cell[<<neighbours[k][1], p>>]],
                      1..Len(neighbours))])

\* product_scores[p]: the sum of score * similarity over the neighbours
\* (a neighbour that did not score p adds 0)
WeightedScores(m, neighbours, cands) ==
    Table([p \in Range(cands) |->
              SumOver([k \in 1..Len(neighbours) |->
                          m.cell[<<neighbours[k][1], p>>] * neighbours[k][2]],
                      1..Len(neighbours))])

\* SELECT ... FROM products WHERE id IN (...): the rows found, in either
\* order by id; then recommendations.sort by score descending (stable).
EnrichAndSort(prods, ids, score, sqltie) ==
    LET found == Range(ids) \cap ProductIdsOf(prods)
        rows  == SortDesc(found, [p \in found |-> 0], sqltie)
    IN  StableSortDesc([k \in 1..Len(rows) |-> Entry(rows[k], score[rows[k]])],
                       [e \in {Entry(q, score[q]) : q \in found} |-> e.score])

Result(raised, self, path, out) ==
    [raised |-> raised, self |-> self, path |-> path, out |-> out]

ScoredStep(self, prods, rows, n, sqltie, score, sorted_products) ==
    IF sorted_products = <<>>
    THEN Result(FALSE, self, "no_candidates", popular_products(prods, rows, n, sqltie))
    ELSE Result(FALSE, self, "scored", EnrichAndSort(prods, sorted_products, score, sqltie))

RankStep(self, prods, rows, n, sqltie, cands, score) ==
    ScoredStep(self, prods, rows, n, sqltie, score, Take(StableSortDesc(cands, score), n))

CandidateStep(self, prods, rows, n, sqltie, m, neighbours, cands) ==
    RankStep(self, prods, rows, n, sqltie, cands, WeightedScores(m, neighbours, cands))

NeighbourStep(self, prods, rows, user_id, n, sqltie, neighbours) ==
    IF neighbours = <<>>
    THEN Result(FALSE, self, "no_neighbours", popular_products(prods, rows, n, sqltie))
    ELSE CandidateStep(self, prods, rows, n, sqltie, Get(self.user_item_matrix), neighbours,
                       Candidates(Get(self.user_item_matrix), user_id, neighbours))

\* The neighbour list without the min_similarity filter
Unfiltered(pairs, min_similarity) == pairs

AtLeast(pairs, min_similarity) ==
    LET Passes(x) == x[2] >= min_similarity
    IN  SelectSeq(pairs, Passes)

KnownUserStep(s0, prods, rows, user_id, n, min_similarity, tie, sqltie, fp) ==
    IF s0.raised THEN Result(TRUE, s0.self, "raise", <<>>)
    ELSE IF user_id \notin Get(s0.self.user_item_matrix).index
    THEN Result(FALSE, s0.self, "cold_start", popular_products(prods, rows, n, sqltie))
    ELSE NeighbourStep(s0.self, prods, rows, user_id, n, sqltie,
             AtLeast(get_similar_users(s0.self, rows, user_id, NeighbourPool, tie, fp).out,
                     min_similarity))

get_recommendations(self, prods, rows, user_id, n, min_similarity, tie, sqltie, fp) ==
    KnownUserStep(IF IsNone(self.user_item_matrix) \/ IsNone(self.user_similarity_matrix)
                  THEN calculate_user_similarity(cf_build_user_item_matrix(self, rows), rows, fp)
                  ELSE [raised |-> FALSE, self |-> self],
                  prods, rows, user_id, n, min_similarity, tie, sqltie, fp)

(***************************************************************************)
(* content_based.py: the recommender                                       *)
(***************************************************************************)
NewContent == [products_df |-> <<>>, tfidf_matrix |-> <<>>]

DataFrameOf(prods, ids) ==
    AsSeq([k \in 1..Len(ids) |-> [id          |-> ids[k],
                                  title       |-> prods[ids[k]].title,
                                  category    |-> prods[ids[k]].category,
                                  description |-> prods[ids[k]].description,
                                  price       |-> prods[ids[k]].price,
                                  rating      |-> prods[ids[k]].rating]])

\* SELECT ... FROM products: the rows, in either order by id
load_products(self, prods, sqltie) ==
    [self EXCEPT !.products_df =
        Some(DataFrameOf(prods, SortDesc(ProductIdsOf(prods),
                                         [p \in ProductIdsOf(prods) |-> 0], sqltie)))]

\* title + ' ' + category + ' ' + description.fillna(''), as its set of terms
CombinedFeatures(row) ==
    row.title \cup {row.category}
      \cup (IF IsNone(row.description) THEN {} ELSE Get(row.description))

\* TfidfVectorizer.fit_transform: one term vector per row (every term with
\* weight 1); fitting raises on a corpus with no term at all.
FitTransform(self, docs) ==
    IF UNION Range(docs) = {}
    THEN [raised |-> TRUE, self |-> self]
    ELSE [raised |-> FALSE, self |-> [self EXCEPT !.tfidf_matrix = Some(docs)]]

FeaturesStep(self) ==
    FitTransform(self, AsSeq([k \in 1..Len(Get(self.products_df)) |->
                                 CombinedFeatures(Get(self.products_df)[k])]))

build_tfidf_matrix(self, prods, sqltie) ==
    FeaturesStep(IF IsNone(self.products_df) THEN load_products(self, prods, sqltie) ELSE self)

TextCosine(a, b) ==
    IF a = {} \/ b = {} THEN 0
    ELSE ScaledRatio(SimScale, Cardinality(a \cap b), Cardinality(a) * Cardinality(b))

Abs(x) == IF x < 0 THEN 0 - x ELSE x

\* IEEE arithmetic and comparison on scores that may be NaN
Plus(a, b) == IF a = NaN \/ b = NaN THEN NaN ELSE a + b
Lt(a, b) == a # NaN /\ b # NaN /\ a < b
Geq(a, b) == a # NaN /\ b # NaN /\ a >= b

\* 1 - price_diff / max_price_diff, in 1/SimScale; 0/0 is nan
PriceSim(diff, max_price) ==
    IF max_price = 0 THEN NaN
    ELSE (SimScale * (max_price - diff)) \div max_price

\* 0.6 * cosine_sim + 0.3 * category_sim + 0.1 * price_sim, in 1/(10*SimScale)
Combined(text, category, price) ==
    IF price = NaN THEN NaN ELSE 6 * text + 3 * category + price

SimilarityTo(df, tfidf, product_idx, max_price_diff) ==
    AsSeq([k \in 1..Len(df) |->
              Combined(TextCosine(tfidf[product_idx], tfidf[k]),
                       IF df[k].category = df[product_idx].category THEN SimScale ELSE 0,
                       PriceSim(Abs(df[k].price - df[product_idx].price), max_price_diff))])

\* calculate_similarity(product_idx): the score of every row against it
calculate_similarity(self, product_idx) ==
    SimilarityTo(Get(self.products_df), Get(self.tfidf_matrix), product_idx,
                 Max({Get(self.products_df)[k].price : k \in 1..Len(Get(self.products_df))}))

DefaultMinScore == SimScale

\* similarity_scores.argsort()[::-1]: NaN sorts as the largest value
ArgsortDescending(scores, tie) ==
    SortDesc(DOMAIN scores,
             [k \in DOMAIN scores |-> IF scores[k] = NaN THEN 10 * SimScale + 1 ELSE scores[k]],
             tie)

\* One pass of the loop over similar_indices: skip the product itself, stop
\* at the first score below min_score, stop once n entries are collected.
Visit(acc, id, score, is_self, n, min_score) ==
    IF acc.done \/ is_self THEN acc
    ELSE IF Lt(score, min_score) THEN [acc EXCEPT !.done = TRUE]
    ELSE [out |-> Append(acc.out, Entry(id, score)), done |-> Len(acc.out) + 1 >= n]

Walk(df, scores, order, product_idx, n, min_score) ==
    LET Acc[k \in 0..Len(order)] ==
            IF k = 0 THEN [out |-> <<>>, done |-> FALSE]
            ELSE Visit(Acc[k - 1], df[order[k]].id, scores[order[k]],
                       order[k] = product_idx, n, min_score)
    IN  Acc[Len(order)].out

RankAndWalk(df, scores, product_idx, n, min_score, tie) ==
    Walk(df, scores, ArgsortDescending(scores, tie), product_idx, n, min_score)

IndexOf(df, product_id) == {k \in 1..Len(df) : df[k].id = product_id}

\* The lookup without its except IndexError clause: .index[0] of an empty
\* selection raises
LookupUnguarded(s0, product_id, n, min_score, tie) ==
    IF s0.raised \/ IndexOf(Get(s0.self.products_df), product_id) = {}
    THEN Result(TRUE, s0.self, "raise", <<>>)
    ELSE Result(FALSE, s0.self, "similar",
                RankAndWalk(Get(s0.self.products_df),
                            calculate_similarity(s0.self,
                                Min(IndexOf(Get(s0.self.products_df), product_id))),
                            Min(IndexOf(Get(s0.self.products_df), product_id)),
                            n, min_score, tie))

LookupStep(s0, product_id, n, min_score, tie) ==
    IF s0.raised THEN Result(TRUE, s0.self, "raise", <<>>)
    ELSE IF IndexOf(Get(s0.self.products_df), product_id) = {}
    THEN Result(FALSE, s0.self, "not_found", <<>>)
    ELSE Result(FALSE, s0.self, "similar",
                RankAndWalk(Get(s0.self.products_df),
                            calculate_similarity(s0.self,
                                Min(IndexOf(Get(s0.self.products_df), product_id))),
                            Min(IndexOf(Get(s0.self.products_df), product_id)),
                            n, min_score, tie))

get_similar_products(self, prods, product_id, n, min_score, tie, sqltie) ==
    LookupStep(IF IsNone(self.products_df) \/ IsNone(self.tfidf_matrix)
               THEN build_tfidf_matrix(load_products(self, prods, sqltie), prods, sqltie)
               ELSE [raised |-> FALSE, self |-> self],
               product_id, n, min_score, tie)

\* ContentBasedRecommender.get_popular_products
get_popular_products(prods, rows, n, sqltie) ==
    EntriesOf(PopularIds(prods, rows, n, sqltie), None)

HistoryLimit == 10
FanOut == 20

\* The history query: per product of the user its latest row (a row's
\* position is its timestamp), latest first, joined to products, LIMIT 10.
LatestOf(rows, u, p) ==
    Max({i \in 1..Len(rows) : rows[i].user_id = u /\ rows[i].product_id = p})

HistoryProducts(prods, rows, u) ==
    {p \in ProductIdsOf(prods) :
        \E i \in 1..Len(rows) : rows[i].user_id = u /\ rows[i].product_id = p}

FullHistory(prods, rows, u) ==
    SortDesc(HistoryProducts(prods, rows, u),
             [p \in HistoryProducts(prods, rows, u) |-> LatestOf(rows, u, p)], "asc")

RecentHistory(prods, rows, u) == Take(FullHistory(prods, rows, u), HistoryLimit)

ScoreIn(list, p) ==
    list[Min({k \in 1..Len(list) : list[k].product_id = p})].score

Holds(list, p) == \E k \in 1..Len(list) : list[k].product_id = p

IdsOf(list) == AsSeq([k \in 1..Len(list) |-> list[k].product_id])

Unmet(ids, seen) == LET Unseen(p) == p \notin Range(seen) IN SelectSeq(ids, Unseen)

\* all_recommendations after the loops: the product ids in the order first
\* met, and per id the sum of its scores over the similar lists holding it.
Extend(seen, ids) == seen \o Unmet(ids, seen)

\* The ids of every list, kept each time they are met
MetIds(lists) ==
    LET Met[j \in 0..Len(lists)] ==
            IF j = 0 THEN <<>> ELSE Met[j - 1] \o IdsOf(lists[j])
    IN  Met[Len(lists)]

FirstMetIds(lists) ==
    LET FirstMet[j \in 0..Len(lists)] ==
            IF j = 0 THEN <<>> ELSE Extend(FirstMet[j - 1], IdsOf(lists[j]))
    IN  FirstMet[Len(lists)]

TotalScore(lists, p) ==
    LET Sum[j \in 0..Len(lists)] ==
            IF j = 0 THEN 0
            ELSE IF Holds(lists[j], p) THEN Plus(Sum[j - 1], ScoreIn(lists[j], p))
            ELSE Sum[j - 1]
    IN  Sum[Len(lists)]

EntriesWithTotals(lists, ids) ==
    AsSeq([k \in 1..Len(ids) |-> Entry(ids[k], TotalScore(lists, ids[k]))])

Aggregate(lists) == EntriesWithTotals(lists, FirstMetIds(lists))

\* list.sort(key=score, reverse=True): NaN compares false both ways, so a
\* list of NaN scores keeps its order
PySortByScore(list) ==
    StableSortDesc(list, [e \in Range(list) |-> IF e.score = NaN THEN 0 ELSE e.score])

NotIn(list, ids) == LET Fresh(e) == e.product_id \notin ids IN SelectSeq(list, Fresh)

FilterStep(end, user_product_ids, n) ==
    IF end.raised THEN Result(TRUE, end.self, "raise", <<>>)
    ELSE Result(FALSE, end.self, "similar",
                Take(PySortByScore(NotIn(Aggregate(end.lists), user_product_ids)), n))

SimilarOf(prev, r) ==
    [raised |-> r.raised, self |-> r.self, lists |-> Append(prev.lists, r.out)]

\* similar = self.get_similar_products(product['id'], n=20)
SimilarTo(prev, prods, product_id, tie, sqltie) ==
    IF prev.raised THEN prev
    ELSE SimilarOf(prev, get_similar_products(prev.self, prods, product_id,
                                              FanOut, DefaultMinScore, tie, sqltie))

\* for _, product in user_products.iterrows(): ...
SimilarLists(self, prods, user_products, tie, sqltie) ==
    LET Step[j \in 0..Len(user_products)] ==
            IF j = 0 THEN [raised |-> FALSE, self |-> self, lists |-> <<>>]
            ELSE SimilarTo(Step[j - 1], prods, user_products[j], tie, sqltie)
    IN  Step[Len(user_products)]

\* The method made to need the text index whatever the history is
IndexedHistoryStep(self, prods, rows, n, tie, sqltie, user_products) ==
    IF IsNone(self.tfidf_matrix) THEN Result(TRUE, self, "raise", <<>>)
    ELSE IF user_products = <<>>
    THEN Result(FALSE, self, "popular", get_popular_products(prods, rows, n, sqltie))
    ELSE FilterStep(SimilarLists(self, prods, user_products, tie, sqltie),
                    Range(user_products), n)

HistoryStep(self, prods, rows, n, tie, sqltie, user_products) ==
    IF user_products = <<>>
    THEN Result(FALSE, self, "popular", get_popular_products(prods, rows, n, sqltie))
    ELSE FilterStep(SimilarLists(self, prods, user_products, tie, sqltie),
                    Range(user_products), n)

get_recommendations_for_user(self, prods, rows, user_id, n, tie, sqltie) ==
    HistoryStep(self, prods, rows, n, tie, sqltie, RecentHistory(prods, rows, user_id))

(***************************************************************************)
(* api/recommendations.py: the lazy singletons                             *)
(***************************************************************************)
Created(r) == [raised |-> r.raised, g |-> Some(r.self)]

\* The global is assigned before the build steps run.
get_content_recommender(g, prods, sqltie) ==
    IF IsNone(g)
    THEN Created(build_tfidf_matrix(load_products(NewContent, prods, sqltie), prods, sqltie))
    ELSE [raised |-> FALSE, g |-> g]

get_collaborative_recommender(g, rows, fp) ==
    IF IsNone(g)
    THEN Created(calculate_user_similarity(
                     cf_build_user_item_matrix(NewCollaborative, rows), rows, fp))
    ELSE [raised |-> FALSE, g |-> g]

(***************************************************************************)
(* api/recommendations.py: _combine_recommendations                        *)
(* A collaborative score is in 1/SimScale, a content score in              *)
(* 1/(10*SimScale), the hybrid score in 1/(100*SimScale).                  *)
(***************************************************************************)
\* x or 0: None (and a missing key) gives 0, NaN is truthy
OrZero(x) == IF x = None THEN 0 ELSE x

Times(k, x) == IF x = NaN THEN NaN ELSE k * x

\* {rec.get('product_id', rec.get('id')): rec for rec in recs}[p]
DictEntry(recs, p) == recs[Max({k \in 1..Len(recs) : recs[k].product_id = p})]

\* hybrid_scores[p] after the two loops
Hybrid(p, score, data) == [product_id |-> p, score |-> score, data |-> data]

CollabOnly(collab_recs, p) ==
    Hybrid(p, Times(60, OrZero(DictEntry(collab_recs, p).score)), DictEntry(collab_recs, p))

ContentOnly(content_recs, p) ==
    Hybrid(p, Times(4, OrZero(DictEntry(content_recs, p).score)), DictEntry(content_recs, p))

AddContent(h, content_recs) ==
    [h EXCEPT !.score = Plus(h.score, Times(4, OrZero(DictEntry(content_recs, h.product_id).score)))]

HybridOf(content_recs, collab_recs, p) ==
    IF Holds(collab_recs, p)
    THEN IF Holds(content_recs, p) THEN AddContent(CollabOnly(collab_recs, p), content_recs)
         ELSE CollabOnly(collab_recs, p)
    ELSE ContentOnly(content_recs, p)

\* hybrid_scores.items(): the collaborative ids in list order, then the
\* content ids not met before
HybridItems(content_recs, collab_recs) ==
    LET keys == FirstMetIds(<<collab_recs, content_recs>>)
    IN  AsSeq([k \in 1..Len(keys) |-> HybridOf(content_recs, collab_recs, keys[k])])

HasNaN(items) == \E k \in 1..Len(items) : items[k].score = NaN

Arrangements(n) == {f \in [1..n -> 1..n] : \A i, j \in 1..n : i # j => f[i] # f[j]}

\* sorted(items, key=score, reverse=True): stable on defined scores; every
\* comparison with NaN is false, and the order such a list is left in is
\* open, so each arrangement is an outcome
SortOutcomes(items) ==
    IF HasNaN(items)
    THEN {AsSeq([k \in 1..Len(items) |-> items[f[k]]]) : f \in Arrangements(Len(items))}
    ELSE {StableSortDesc(items, [h \in Range(items) |-> h.score])}

DataOf(sorted_recs) == AsSeq([k \in 1..Len(sorted_recs) |-> sorted_recs[k].data])

\* the lists _combine_recommendations can return
combine_recommendations(content_recs, collab_recs, limit) ==
    {DataOf(Take(sorted_recs, limit)) :
        sorted_recs \in SortOutcomes(HybridItems(content_recs, collab_recs))}

(***************************************************************************)
(* Data the service is started on (load_data.py) and inputs of the calls   *)
(***************************************************************************)
Row(u, p, type, rating) ==
    [user_id |-> u, product_id |-> p, interaction_type |-> type, rating |-> rating]

Product(title, category, description, price, rating) ==
    [title |-> title, category |-> category, description |-> description,
     price |-> price, rating |-> rating]

\* Catalogs of three products, and one of a single product
Titles ==
    { <<{"python", "guide"}, {"java", "guide"}, {"toy", "car"}>>,
      <<{"mug"}, {"mug"}, {"mug"}>> }
Categories == { <<"Books", "Books", "Toys">>, <<"Books", "Books", "Books">> }
Prices == { <<20, 40, 10>>, <<10, 10, 10>>, <<0, 0, 0>> }

CatalogOf(t, c, p) ==
    [i \in 1..3 |-> Product(t[i], c[i], IF i = 1 THEN Some({"programming"}) ELSE <<>>,
                            p[i], IF i = 3 THEN None ELSE 40 + i)]

Catalog3 ==
    CatalogOf(<<{"python", "guide"}, {"java", "guide"}, {"toy", "car"}>>,
              <<"Books", "Books", "Toys">>, <<20, 40, 10>>)

Catalogs ==
    {CatalogOf(t, c, p) : t \in Titles, c \in Categories, p \in Prices}
      \cup {<<Product({"lamp"}, "Home", <<>>, 15, 30)>>}

\* A catalog larger than the history window, and a user who viewed its
\* first k products one after the other
BigCatalog ==
    [i \in 1..(HistoryLimit + 2) |->
        Product({"item"}, IF i % 2 = 1 THEN "Books" ELSE "Toys", <<>>, 10 + i, 40)]

HistoryOf(k) == [i \in 1..k |-> Row(1, i, "view", None)]

LoadedData ==
    { <<>>,
      <<Row(1, 1, "view", None), Row(2, 2, "view", None)>>,
      <<Row(1, 1, "view", None), Row(2, 1, "view", None), Row(2, 2, "purchase", None)>>,
      <<Row(1, 1, "purchase", None), Row(2, 1, "rating", 4), Row(2, 2, "view", None),
        Row(3, 1, "view", None), Row(3, 3, "rating", 2)>>,
      <<Row(1, 3, "wishlist", None), Row(2, 2, "view", None), Row(2, 2, "purchase", None)>> }

\* Requests to POST /api/interactions: type and rating
TrackInputs ==
    { <<"view", None>>, <<"purchase", None>>, <<"wishlist", None>>,
      <<"rating", 3>>, <<"rating", None>>, <<"rating", 6>>, <<"rating", 0>>,
      <<"share", None>> }

\* Small data sets: every sequence of at most MaxSeedRows rows, of user 1
\* on products 1 and 2 and user 2 on product 1
SmallRows ==
    {Row(c[1], c[2], t[1], t[2]) : c \in {<<1, 1>>, <<1, 2>>, <<2, 1>>},
                                   t \in {<<"view", None>>, <<"purchase", None>>,
                                          <<"wishlist", None>>, <<"rating", 3>>}}

SmallData == UNION {[1..k -> SmallRows] : k \in 0..MaxSeedRows}

ContentData ==
    { <<>>,
      <<Row(1, 1, "view", None)>>,
      <<Row(1, 1, "view", None), Row(2, 2, "purchase", None), Row(1, 2, "rating", 4)>>,
      <<Row(1, 3, "wishlist", None), Row(1, 1, "view", None), Row(3, 2, "view", None)>> }

Limits == 1..MaxLimit
MinSimilarities == {DefaultMinSimilarity, (9 * SimScale) \div 10}
MinScores == {0, DefaultMinScore, 9 * SimScale}

Idle == [op |-> "idle"]

\* A handler: where it stands, the algorithm asked for, what the getter
\* handed it ("built", "unbuilt" or "" for nothing yet), the status answered
HandlerIds == 1..MaxHandlers

Handler(pc, algorithm, observed, status) ==
    [pc |-> pc, algorithm |-> algorithm, observed |-> observed, status |-> status]

NoHandlers == [h \in HandlerIds |-> Handler("idle", "", "", 0)]

Tracked == Cardinality({i \in 1..Len(interactions) : interactions[i].tracked})

SeedRows(rows) == [i \in 1..Len(rows) |-> rows[i] @@ [tracked |-> FALSE]]

(***************************************************************************)
(* api/interactions.py                                                     *)
(***************************************************************************)
ValidTypes == {"view", "purchase", "rating", "wishlist"}

\* The schema alone, without the handler's own checks
SchemaStatus(type, rating) ==
    IF type \notin ValidTypes THEN 422
    ELSE IF rating # None /\ (rating < 1 \/ rating > 5) THEN 422
    ELSE 201

\* The schema (pattern, 1 <= rating <= 5), then the handler's own checks
TrackStatus(type, rating) ==
    IF type \notin ValidTypes THEN 422
    ELSE IF rating # None /\ (rating < 1 \/ rating > 5) THEN 422
    ELSE IF type = "rating" /\ rating = None THEN 400
    ELSE 201

Tracking(u, p, type, rating, status) ==
    /\ IF status = 201
       THEN interactions' = Append(interactions,
                                   Row(u, p, type, rating) @@ [tracked |-> TRUE])
       ELSE UNCHANGED interactions
    /\ last' = [op |-> "track_interaction", interaction_type |-> type, rating |-> rating,
                status |-> status]

track_interaction(u, p, type, rating) ==
    /\ last = Idle
    /\ Tracked < MaxTrack
    /\ Tracking(u, p, type, rating, TrackStatus(type, rating))
    /\ UNCHANGED <<products, collaborative_recommender, content_recommender, handlers>>

\* The caller has its response; the next request can be served.
Deliver ==
    /\ last # Idle
    /\ last' = Idle
    /\ UNCHANGED <<products, interactions, collaborative_recommender, content_recommender, handlers>>

(***************************************************************************)
(* Calls on the collaborative singleton                                    *)
(***************************************************************************)
\* What a call finds in a global: no instance, an instance some structure
\* of which is None, or a built one
StandingOf(g, first, second) ==
    IF IsNone(g) THEN "none"
    ELSE IF IsNone(Get(g)[first]) \/ IsNone(Get(g)[second]) THEN "unbuilt"
    ELSE "built"

CollabStanding == StandingOf(collaborative_recommender, "user_item_matrix", "user_similarity_matrix")
ContentStanding == StandingOf(content_recommender, "products_df", "tfidf_matrix")

RaisedIn(g) == [raised |-> TRUE, self |-> Get(g.g), path |-> "raise", out |-> <<>>]

\* The roundings open to a call: those of the matrix it computes the
\* similarity of, if it computes one
SimilarityPending(g) == IsNone(g) \/ IsNone(Get(g).user_similarity_matrix)

MatrixHeld(g) == IF IsNone(g) \/ IsNone(Get(g).user_item_matrix) THEN {}
                 ELSE {Get(Get(g).user_item_matrix)}

RoundingsFor(g, rows) ==
    IF SimilarityPending(g)
    THEN UNION {Roundings(m) : m \in MatrixHeld(g) \cup {build_user_item_matrix(rows)}}
    ELSE {{}}

SimilarUsersReturned(user_id, n, r) ==
    /\ collaborative_recommender' = Some(r.self)
    /\ last' = [op |-> "get_similar_users", user_id |-> user_id, n |-> n,
                found |-> CollabStanding, raised |-> r.raised, out |-> r.out]

SimilarUsersOn(g, user_id, n, tie, fp) ==
    SimilarUsersReturned(user_id, n,
        IF g.raised THEN RaisedIn(g)
        ELSE get_similar_users(Get(g.g), interactions, user_id, n, tie, fp))

call_get_similar_users(user_id, n, tie, fp) ==
    /\ last = Idle
    /\ SimilarUsersOn(get_collaborative_recommender(collaborative_recommender, interactions, fp),
                      user_id, n, tie, fp)
    /\ UNCHANGED <<products, interactions, content_recommender, handlers>>

RecommendationsReturned(user_id, n, min_similarity, r) ==
    /\ collaborative_recommender' = Some(r.self)
    /\ last' = [op |-> "get_recommendations", user_id |-> user_id, n |-> n,
                min_similarity |-> min_similarity, found |-> CollabStanding,
                raised |-> r.raised, path |-> r.path, out |-> r.out]

RecommendationsOn(g, user_id, n, min_similarity, tie, sqltie, fp) ==
    RecommendationsReturned(user_id, n, min_similarity,
        IF g.raised THEN RaisedIn(g)
        ELSE get_recommendations(Get(g.g), products, interactions,
                                 user_id, n, min_similarity, tie, sqltie, fp))

call_get_recommendations(user_id, n, min_similarity, tie, sqltie, fp) ==
    /\ last = Idle
    /\ RecommendationsOn(get_collaborative_recommender(collaborative_recommender, interactions, fp),
                         user_id, n, min_similarity, tie, sqltie, fp)
    /\ UNCHANGED <<products, interactions, content_recommender, handlers>>

(***************************************************************************)
(* The collaborative recommender over a changing store                     *)
(***************************************************************************)
Init ==
    /\ products = Catalog3
    /\ interactions \in {SeedRows(d) : d \in LoadedData}
    /\ collaborative_recommender = <<>>
    /\ content_recommender = <<>>
    /\ last = Idle
    /\ handlers = NoHandlers

Next ==
    \/ \E u \in UserIds, p \in DOMAIN products, t \in TrackInputs :
           track_interaction(u, p, t[1], t[2])
    \/ \E u \in QueryUserIds, n \in Limits, tie \in TieOrders,
          fp \in RoundingsFor(collaborative_recommender, interactions) :
           call_get_similar_users(u, n, tie, fp)
    \/ \E u \in QueryUserIds, n \in Limits, ms \in MinSimilarities,
          tie \in TieOrders, sqltie \in TieOrders,
          fp \in RoundingsFor(collaborative_recommender, interactions) :
           call_get_recommendations(u, n, ms, tie, sqltie, fp)
    \/ Deliver

Spec == Init /\ [][Next]_vars

(***************************************************************************)
(* The matrix builders called directly, as test_algorithm() does           *)
(***************************************************************************)
new_recommender ==
    /\ last = Idle
    /\ IsNone(collaborative_recommender)
    /\ collaborative_recommender' = Some(NewCollaborative)
    /\ UNCHANGED <<products, interactions, content_recommender, last, handlers>>

call_build_user_item_matrix ==
    /\ last = Idle
    /\ ~IsNone(collaborative_recommender)
    /\ collaborative_recommender' =
           Some(cf_build_user_item_matrix(Get(collaborative_recommender), interactions))
    /\ last' = [op |-> "build_user_item_matrix", raised |-> FALSE]
    /\ UNCHANGED <<products, interactions, content_recommender, handlers>>

SimilarityReturned(r) ==
    /\ collaborative_recommender' = Some(r.self)
    /\ last' = [op |-> "calculate_user_similarity", raised |-> r.raised]

call_calculate_user_similarity(fp) ==
    /\ last = Idle
    /\ ~IsNone(collaborative_recommender)
    /\ SimilarityReturned(calculate_user_similarity(Get(collaborative_recommender),
                                                    interactions, fp))
    /\ UNCHANGED <<products, interactions, content_recommender, handlers>>

InitMatrix ==
    /\ products = Catalog3
    /\ interactions \in {SeedRows(d) : d \in SmallData}
    /\ collaborative_recommender = <<>>
    /\ content_recommender = <<>>
    /\ last = Idle
    /\ handlers = NoHandlers

NextMatrix ==
    \/ new_recommender
    \/ call_build_user_item_matrix
    \/ \E fp \in UNION {Roundings(m) : m \in MatrixHeld(collaborative_recommender)
                                             \cup {build_user_item_matrix(interactions)}} :
           call_calculate_user_similarity(fp)
    \/ Deliver

SpecMatrix == InitMatrix /\ [][NextMatrix]_vars

(***************************************************************************)
(* Calls on the content singleton and GET /similar/{product_id}            *)
(***************************************************************************)
SimilarProductsReturned(product_id, n, min_score, r) ==
    /\ content_recommender' = Some(r.self)
    /\ last' = [op |-> "get_similar_products", product_id |-> product_id, n |-> n,
                min_score |-> min_score, found |-> ContentStanding,
                raised |-> r.raised, path |-> r.path, out |-> r.out]

SimilarProductsOn(g, product_id, n, min_score, tie, sqltie) ==
    SimilarProductsReturned(product_id, n, min_score,
        IF g.raised THEN RaisedIn(g)
        ELSE get_similar_products(Get(g.g), products, product_id, n, min_score, tie, sqltie))

call_get_similar_products(product_id, n, min_score, tie, sqltie) ==
    /\ last = Idle
    /\ SimilarProductsOn(get_content_recommender(content_recommender, products, sqltie),
                         product_id, n, min_score, tie, sqltie)
    /\ UNCHANGED <<products, interactions, collaborative_recommender, handlers>>

ForUserReturned(user_id, n, r) ==
    /\ content_recommender' = Some(r.self)
    /\ last' = [op |-> "get_recommendations_for_user", user_id |-> user_id, n |-> n,
                found |-> ContentStanding,
                raised |-> r.raised, path |-> r.path, out |-> r.out]

ForUserOn(g, user_id, n, tie, sqltie) ==
    ForUserReturned(user_id, n,
        IF g.raised THEN RaisedIn(g)
        ELSE get_recommendations_for_user(Get(g.g), products, interactions,
                                          user_id, n, tie, sqltie))

call_get_recommendations_for_user(user_id, n, tie, sqltie) ==
    /\ last = Idle
    /\ ForUserOn(get_content_recommender(content_recommender, products, sqltie),
                 user_id, n, tie, sqltie)
    /\ UNCHANGED <<products, interactions, collaborative_recommender, handlers>>

\* The try block of the handler: what it raises, or the response it builds
SimilarTry(r) ==
    IF r.raised THEN [exc |-> "Exception", status |-> 500]
    ELSE IF r.out = <<>> THEN [exc |-> "HTTPException", status |-> 404]
    ELSE [exc |-> "", status |-> 200]

\* except Exception as e: raise HTTPException(status_code=500, ...)
\* (HTTPException is an Exception)
ExceptException(t) == IF t.exc # "" THEN 500 ELSE t.status

SimilarResponded(product_id, limit, r, status) ==
    /\ content_recommender' = Some(r.self)
    /\ last' = [op |-> "api_similar", product_id |-> product_id, limit |-> limit,
                path |-> r.path, status |-> status,
                recommendations |-> IF status = 200 THEN r.out ELSE <<>>]

SimilarHandled(product_id, limit, r) ==
    SimilarResponded(product_id, limit, r, ExceptException(SimilarTry(r)))

SimilarOn(g, product_id, limit, tie, sqltie) ==
    SimilarHandled(product_id, limit,
        IF g.raised THEN RaisedIn(g)
        ELSE get_similar_products(Get(g.g), products, product_id, limit,
                                  DefaultMinScore, tie, sqltie))

api_get_similar_products(product_id, limit, tie, sqltie) ==
    /\ last = Idle
    /\ SimilarOn(get_content_recommender(content_recommender, products, sqltie),
                 product_id, limit, tie, sqltie)
    /\ UNCHANGED <<products, interactions, collaborative_recommender, handlers>>

\* product_id INTEGER REFERENCES products(id)
References(rows, prods) == \A i \in 1..Len(rows) : rows[i].product_id \in ProductIdsOf(prods)

InitContent ==
    /\ \/ /\ products \in Catalogs
          /\ interactions \in {SeedRows(d) : d \in {e \in ContentData : References(e, products)}}
       \/ /\ products = BigCatalog
          /\ interactions \in {SeedRows(HistoryOf(k)) : k \in 1..MaxSeedHistory}
    /\ collaborative_recommender = <<>>
    /\ content_recommender = <<>>
    /\ last = Idle
    /\ handlers = NoHandlers

NextContent ==
    \/ \E p \in DOMAIN products \cup {999}, n \in Limits, ms \in MinScores,
          tie \in TieOrders, sqltie \in TieOrders :
           call_get_similar_products(p, n, ms, tie, sqltie)
    \/ \E u \in QueryUserIds, n \in Limits, tie \in TieOrders, sqltie \in TieOrders :
           call_get_recommendations_for_user(u, n, tie, sqltie)
    \/ \E p \in DOMAIN products \cup {999}, n \in Limits,
          tie \in TieOrders, sqltie \in TieOrders :
           api_get_similar_products(p, n, tie, sqltie)
    \/ Deliver

SpecContent == InitContent /\ [][NextContent]_vars

(***************************************************************************)
(* GET /for-user/{user_id}                                                 *)
(* The try block gives [raised, content, collab, outcomes]: whether it     *)
(* raised, the two globals as it leaves them, and the lists it may hold in *)
(* `recommendations`.                                                      *)
(***************************************************************************)
Algorithms == {"content", "collaborative", "hybrid"}

Tried(raised, content, collab, outcomes) ==
    [raised |-> raised, content |-> content, collab |-> collab, outcomes |-> outcomes]

\* algorithm == "content"
ContentRecsOf(c, collab, user_id, limit, tie, sqltie) ==
    IF c.raised THEN Tried(TRUE, c.g, collab, {<<>>})
    ELSE LET r == get_recommendations_for_user(Get(c.g), products, interactions,
                                               user_id, limit, tie, sqltie)
         IN  Tried(r.raised, Some(r.self), collab, {r.out})

\* algorithm == "collaborative"
CollabRecsOf(g, content, user_id, limit, tie, sqltie, fp) ==
    IF g.raised THEN Tried(TRUE, content, g.g, {<<>>})
    ELSE LET r == get_recommendations(Get(g.g), products, interactions, user_id, limit,
                                      DefaultMinSimilarity, tie, sqltie, fp)
         IN  Tried(r.raised, content, Some(r.self), {r.out})

\* hybrid: both getters, both lists (n = limit * 2), then the merge
HybridMerge(r, q, limit) ==
    IF q.raised THEN Tried(TRUE, Some(r.self), Some(q.self), {<<>>})
    ELSE Tried(FALSE, Some(r.self), Some(q.self), combine_recommendations(r.out, q.out, limit))

HybridLists(r, g, user_id, limit, tie, sqltie, fp) ==
    IF r.raised THEN Tried(TRUE, Some(r.self), g.g, {<<>>})
    ELSE HybridMerge(r, get_recommendations(Get(g.g), products, interactions, user_id,
                                            limit * 2, DefaultMinSimilarity, tie, sqltie, fp),
                     limit)

HybridGetters(c, g, user_id, limit, tie, sqltie, fp) ==
    IF g.raised THEN Tried(TRUE, c.g, g.g, {<<>>})
    ELSE HybridLists(get_recommendations_for_user(Get(c.g), products, interactions,
                                                  user_id, limit * 2, tie, sqltie),
                     g, user_id, limit, tie, sqltie, fp)

HybridRecsOf(c, collab, user_id, limit, tie, sqltie, fp) ==
    IF c.raised THEN Tried(TRUE, c.g, collab, {<<>>})
    ELSE HybridGetters(c, get_collaborative_recommender(collab, interactions, fp),
                       user_id, limit, tie, sqltie, fp)

RecsOf(algorithm, user_id, limit, tie, sqltie, fp) ==
    IF algorithm = "content"
    THEN ContentRecsOf(get_content_recommender(content_recommender, products, sqltie),
                       collaborative_recommender, user_id, limit, tie, sqltie)
    ELSE IF algorithm = "collaborative"
    THEN CollabRecsOf(get_collaborative_recommender(collaborative_recommender, interactions, fp),
                      content_recommender, user_id, limit, tie, sqltie, fp)
    ELSE HybridRecsOf(get_content_recommender(content_recommender, products, sqltie),
                      collaborative_recommender, user_id, limit, tie, sqltie, fp)

\* if not recommendations: get_content_recommender().get_popular_products(n=limit)
PopularOf(c, collab, limit, sqltie) ==
    IF c.raised THEN [raised |-> TRUE, content |-> c.g, collab |-> collab, recs |-> <<>>]
    ELSE [raised |-> FALSE, content |-> c.g, collab |-> collab,
          recs |-> get_popular_products(products, interactions, limit, sqltie)]

OrPopular(t, recs, limit, sqltie) ==
    IF t.raised THEN [raised |-> TRUE, content |-> t.content, collab |-> t.collab, recs |-> <<>>]
    ELSE IF recs = <<>>
    THEN PopularOf(get_content_recommender(t.content, products, sqltie), t.collab, limit, sqltie)
    ELSE [raised |-> FALSE, content |-> t.content, collab |-> t.collab, recs |-> recs]

\* similarity_score=item.get('similarity_score') or item.get('recommendation_score')
Formatted(recs) ==
    AsSeq([k \in 1..Len(recs) |->
              Entry(recs[k].product_id, IF recs[k].score = 0 THEN None ELSE recs[k].score)])

\* The repository during a request: available, unavailable from its first
\* statement on ("down"), or gone once the getters have returned ("lost").
\* Every query method reaches a statement that reads the repository
\* before it returns: the history query of get_recommendations_for_user,
\* and in get_recommendations the build, a popularity query or the query
\* for the product details.
Availability == {"up", "down", "lost"}

Raised(content, collab) ==
    [raised |-> TRUE, content |-> content, collab |-> collab, recs |-> <<>>]

\* a getter while the repository is unavailable: an instance there is
\* returned, a new one is assigned and its first build step raises
CreatedUnbuilt(g, new) == IF IsNone(g) THEN Some(new) ELSE g

\* The failure swallowed: the try block ends with an empty list
Swallowed(algorithm) ==
    [raised |-> FALSE, content |-> content_recommender,
     collab |-> collaborative_recommender, recs |-> <<>>]

Unavailable(algorithm) ==
    IF algorithm = "collaborative"
    THEN Raised(content_recommender,
                CreatedUnbuilt(collaborative_recommender, NewCollaborative))
    ELSE IF algorithm = "content" \/ IsNone(content_recommender)
    THEN Raised(CreatedUnbuilt(content_recommender, NewContent), collaborative_recommender)
    ELSE Raised(content_recommender,
                CreatedUnbuilt(collaborative_recommender, NewCollaborative))

\* the getters of the branch run, then the first query raises
Lost(algorithm, sqltie, fp) ==
    IF algorithm = "collaborative"
    THEN Raised(content_recommender,
                get_collaborative_recommender(collaborative_recommender, interactions, fp).g)
    ELSE IF algorithm = "content"
            \/ get_content_recommender(content_recommender, products, sqltie).raised
    THEN Raised(get_content_recommender(content_recommender, products, sqltie).g,
                collaborative_recommender)
    ELSE Raised(get_content_recommender(content_recommender, products, sqltie).g,
                get_collaborative_recommender(collaborative_recommender, interactions, fp).g)

\* return RecommendationResponse(..., count=len(formatted_recs)), or
\* except Exception: raise HTTPException(status_code=500)
ForUserResponded(user_id, limit, algorithm, db, f) ==
    /\ content_recommender' = f.content
    /\ collaborative_recommender' = f.collab
    /\ last' = [op |-> "api_for_user", user_id |-> user_id, limit |-> limit,
                algorithm |-> algorithm, repository |-> db,
                status |-> IF f.raised THEN 500 ELSE 200,
                recommendations |-> IF f.raised THEN <<>> ELSE Formatted(f.recs),
                count |-> IF f.raised THEN None ELSE Len(Formatted(f.recs))]

ForUserTried(user_id, limit, algorithm, sqltie, t) ==
    \E recs \in t.outcomes :
        ForUserResponded(user_id, limit, algorithm, "up", OrPopular(t, recs, limit, sqltie))

api_get_user_recommendations(user_id, limit, algorithm, db, tie, sqltie, fp) ==
    /\ last = Idle
    /\ IF db = "down"
       THEN ForUserResponded(user_id, limit, algorithm, db, Unavailable(algorithm))
       ELSE IF db = "lost"
       THEN ForUserResponded(user_id, limit, algorithm, db, Lost(algorithm, sqltie, fp))
       ELSE ForUserTried(user_id, limit, algorithm, sqltie,
                         RecsOf(algorithm, user_id, limit, tie, sqltie, fp))
    /\ UNCHANGED <<products, interactions, handlers>>

(***************************************************************************)
(* GET /popular                                                            *)
(***************************************************************************)
PopularResponded(limit, db, f) ==
    /\ content_recommender' = f.content
    /\ last' = [op |-> "api_popular", limit |-> limit, repository |-> db,
                status |-> IF f.raised THEN 500 ELSE 200,
                recommendations |-> IF f.raised THEN <<>> ELSE f.recs,
                count |-> IF f.raised THEN None ELSE Len(f.recs)]

api_get_popular_products(limit, db, sqltie) ==
    /\ last = Idle
    /\ PopularResponded(limit, db,
           IF db = "down" THEN Unavailable("content")
           ELSE IF db = "lost" THEN Lost("content", sqltie, {})
           ELSE PopularOf(get_content_recommender(content_recommender, products, sqltie),
                          collaborative_recommender, limit, sqltie))
    /\ UNCHANGED <<products, interactions, collaborative_recommender, handlers>>

(***************************************************************************)
(* get_metrics of the two recommenders and GET /metrics                    *)
(***************************************************************************)
\* 100 * num / den in whole percent; a division of 0 by 0 is nan
Percent(num, den) == IF den = 0 THEN NaN ELSE (100 * num) \div den

NonZeroCells(m) == {c \in DOMAIN m.cell : m.cell[c] > 0}

\* CollaborativeFilteringRecommender.get_metrics, on the matrix the instance
\* holds (avg_interactions_per_user in 1/SimScale)
MetricsOfMatrix(m) ==
    [algorithm                 |-> "collaborative_filtering",
     total_users               |-> Cardinality(m.index),
     total_products            |-> Cardinality(m.columns),
     sparsity                  |-> Percent(Cardinality(DOMAIN m.cell) - Cardinality(NonZeroCells(m)),
                                           Cardinality(DOMAIN m.cell)),
     avg_interactions_per_user |-> IF m.index = {} THEN NaN
                                   ELSE (SimScale * Cardinality(NonZeroCells(m)))
                                          \div Cardinality(m.index),
     coverage_users            |-> 100,
     coverage_products         |-> Percent(Cardinality({p \in m.columns :
                                                           \E u \in m.index : m.cell[<<u, p>>] > 0}),
                                           Cardinality(m.columns))]

cf_get_metrics(self, rows) ==
    LET built == IF IsNone(self.user_item_matrix) THEN cf_build_user_item_matrix(self, rows)
                 ELSE self
    IN  [raised |-> FALSE, self |-> built, metrics |-> MetricsOfMatrix(Get(built.user_item_matrix))]

SampleSize == 10

\* np.random.choice(total_products, sample_size, replace=False)
Samples(total) ==
    {S \in SUBSET (1..total) : Cardinality(S) = Min({SampleSize, total})}

\* ndarray.mean(): nan for no element and for any nan element
MeanOf(values) ==
    IF values = <<>> \/ NaN \in Range(values) THEN NaN
    ELSE SumOver(values, DOMAIN values) \div Len(values)

Without(scores, idx) == LET Other(k) == k # idx IN SelectSeq(AsSeq([k \in DOMAIN scores |-> k]), Other)

\* np.delete(similarities, idx).mean()
MeanSimilarity(self, idx) ==
    LET scores == calculate_similarity(self, idx)
        others == Without(scores, idx)
    IN  MeanOf(AsSeq([k \in 1..Len(others) |-> scores[others[k]]]))

\* fitted vocabulary: the distinct terms of the corpus
Vocabulary(self) == UNION Range(Get(self.tfidf_matrix))

MetricsOfIndex(self, sample) ==
    [algorithm            |-> "content_based",
     total_products       |-> Len(Get(self.products_df)),
     coverage             |-> 100,
     avg_similarity_score |-> MeanOf(AsSeq([k \in 1..Cardinality(sample) |->
                                               MeanSimilarity(self, InIdOrder(sample)[k])])),
     tfidf_features       |-> Cardinality(Vocabulary(self))]

cb_get_metrics(self, prods, sqltie, sample) ==
    LET s0 == IF IsNone(self.products_df) THEN load_products(self, prods, sqltie) ELSE self
        s1 == IF IsNone(s0.tfidf_matrix) THEN build_tfidf_matrix(s0, prods, sqltie)
              ELSE [raised |-> FALSE, self |-> s0]
    IN  IF s1.raised THEN [raised |-> TRUE, self |-> s1.self, metrics |-> [algorithm |-> "content_based"]]
        ELSE [raised |-> FALSE, self |-> s1.self, metrics |-> MetricsOfIndex(s1.self, sample)]

\* MetricsResponse(**metrics): algorithm, total_products and coverage are
\* required; a key the schema does not declare is ignored, a declared
\* optional one that is missing is None
RequiredFields == {"algorithm", "total_products", "coverage"}

Field(metrics, name) == IF name \in DOMAIN metrics THEN metrics[name] ELSE None

MetricsResponse(metrics) ==
    IF RequiredFields \subseteq DOMAIN metrics
    THEN [raised |-> FALSE,
          body   |-> [algorithm            |-> metrics.algorithm,
                      total_products       |-> metrics.total_products,
                      coverage             |-> metrics.coverage,
                      avg_similarity_score |-> Field(metrics, "avg_similarity_score"),
                      tfidf_features       |-> Field(metrics, "tfidf_features")]]
    ELSE [raised |-> TRUE, body |-> [detail |-> "validation error"]]

MetricsResponded(algorithm, content, collab, response) ==
    /\ content_recommender' = content
    /\ collaborative_recommender' = collab
    /\ last' = [op |-> "api_metrics", algorithm |-> algorithm,
                status |-> IF response.raised THEN 500 ELSE 200,
                body |-> IF response.raised THEN [detail |-> "error"] ELSE response.body]

Failed == [raised |-> TRUE, body |-> [detail |-> "error"]]

CollabMetrics(g) ==
    IF g.raised THEN MetricsResponded("collaborative", content_recommender, g.g, Failed)
    ELSE LET r == cf_get_metrics(Get(g.g), interactions)
         IN  MetricsResponded("collaborative", content_recommender, Some(r.self),
                              IF r.raised THEN Failed ELSE MetricsResponse(r.metrics))

ContentMetrics(algorithm, c, sqltie) ==
    IF c.raised THEN MetricsResponded(algorithm, c.g, collaborative_recommender, Failed)
    \* total_products = len(self.products_df), loaded by then if it was not
    ELSE \E sample \in Samples(Len(products)) :
             LET r == cb_get_metrics(Get(c.g), products, sqltie, sample)
             IN  MetricsResponded(algorithm, Some(r.self), collaborative_recommender,
                                  IF r.raised THEN Failed ELSE MetricsResponse(r.metrics))

\* rec = collaborative if algorithm == "collaborative" else content
api_get_metrics(algorithm, sqltie, fp) ==
    /\ last = Idle
    /\ IF algorithm = "collaborative"
       THEN CollabMetrics(get_collaborative_recommender(collaborative_recommender,
                                                        interactions, fp))
       ELSE ContentMetrics(algorithm,
                           get_content_recommender(content_recommender, products, sqltie), sqltie)
    /\ UNCHANGED <<products, interactions, handlers>>

(***************************************************************************)
(* The recommendation and tracking endpoints over a changing store         *)
(***************************************************************************)
ApiCatalogs ==
    {Catalog3,
     CatalogOf(<<{"mug"}, {"mug"}, {"mug"}>>, <<"Books", "Books", "Books">>, <<0, 0, 0>>),
     <<Product({"lamp"}, "Home", <<>>, 15, 30)>>}

\* An empty interactions table, one of views, one of wishlist rows only
ApiData ==
    { <<>>,
      <<Row(1, 1, "view", None), Row(2, 1, "view", None), Row(2, 2, "purchase", None)>>,
      <<Row(1, 1, "wishlist", None)>> }

ApiTrackInputs == { <<"view", None>>, <<"rating", 5>>, <<"share", None>> }

InitApi ==
    /\ products \in ApiCatalogs
    /\ interactions \in {SeedRows(d) : d \in {e \in ApiData : References(e, products)}}
    /\ collaborative_recommender = <<>>
    /\ content_recommender = <<>>
    /\ last = Idle
    /\ handlers = NoHandlers

NextApi ==
    \/ \E u \in UserIds, p \in DOMAIN products, t \in ApiTrackInputs :
           track_interaction(u, p, t[1], t[2])
    \/ \E u \in QueryUserIds, n \in Limits, a \in Algorithms,
          tie \in TieOrders, sqltie \in TieOrders,
          fp \in RoundingsFor(collaborative_recommender, interactions) :
           api_get_user_recommendations(u, n, a, "up", tie, sqltie, fp)
    \/ \E a \in {"content", "collaborative"}, sqltie \in TieOrders,
          fp \in RoundingsFor(collaborative_recommender, interactions) :
           api_get_metrics(a, sqltie, fp)
    \/ Deliver

SpecApi == InitApi /\ [][NextApi]_vars

(***************************************************************************)
(* Requests in flight on the first access to a singleton                   *)
(* The handlers are coroutines without an await: the event loop runs one   *)
(* of them from its first statement to its response before it starts the   *)
(* next. The steps of the getter are separate actions of the one handler   *)
(* that is running.                                                        *)
(***************************************************************************)
Running(h) == handlers[h].pc \in {"created", "half", "got", "raised"}

LoopFree == \A h \in HandlerIds : ~Running(h)

\* whether every structure of the instance the global refers to is built
FullyBuilt(algorithm) ==
    IF algorithm = "collaborative"
    THEN /\ ~IsNone(Get(collaborative_recommender).user_item_matrix)
         /\ ~IsNone(Get(collaborative_recommender).user_similarity_matrix)
    ELSE /\ ~IsNone(Get(content_recommender).products_df)
         /\ ~IsNone(Get(content_recommender).tfidf_matrix)

GlobalOf(algorithm) ==
    IF algorithm = "collaborative" THEN collaborative_recommender ELSE content_recommender

\* a request reaches the server and waits for the event loop
Arrive(h, algorithm) ==
    /\ handlers[h].pc = "idle"
    /\ handlers' = [handlers EXCEPT ![h] = Handler("queued", algorithm, "", 0)]
    /\ UNCHANGED <<products, interactions, collaborative_recommender, content_recommender, last>>

\* the handler starts and enters the getter: `if <global> is None:` then the
\* assignment of a new instance to the global, else `return <global>`
Enter(h) ==
    /\ handlers[h].pc = "queued"
    /\ LoopFree
    /\ IF IsNone(GlobalOf(handlers[h].algorithm))
       THEN /\ handlers' = [handlers EXCEPT ![h].pc = "created"]
            /\ IF handlers[h].algorithm = "collaborative"
               THEN /\ collaborative_recommender' = Some(NewCollaborative)
                    /\ UNCHANGED content_recommender
               ELSE /\ content_recommender' = Some(NewContent)
                    /\ UNCHANGED collaborative_recommender
       ELSE /\ handlers' = [handlers EXCEPT ![h].pc = "got",
                                            ![h].observed =
                                                IF FullyBuilt(handlers[h].algorithm)
                                                THEN "built" ELSE "unbuilt"]
            /\ UNCHANGED <<collaborative_recommender, content_recommender>>
    /\ UNCHANGED <<products, interactions, last>>

\* build_user_item_matrix() resp. load_products() in the getter
BuildFirst(h, sqltie) ==
    /\ handlers[h].pc = "created"
    /\ handlers' = [handlers EXCEPT ![h].pc = "half"]
    /\ IF handlers[h].algorithm = "collaborative"
       THEN /\ collaborative_recommender' =
                   Some(cf_build_user_item_matrix(Get(collaborative_recommender), interactions))
            /\ UNCHANGED content_recommender
       ELSE /\ content_recommender' =
                   Some(load_products(Get(content_recommender), products, sqltie))
            /\ UNCHANGED collaborative_recommender
    /\ UNCHANGED <<products, interactions, last>>

Built(h, r) ==
    handlers' = [handlers EXCEPT ![h].pc = IF r.raised THEN "raised" ELSE "got",
                                 ![h].observed = IF r.raised THEN "" ELSE "built"]

\* calculate_user_similarity() resp. build_tfidf_matrix() in the getter, and
\* its `return <global>` unless the step raised
BuildSecond(h, sqltie, fp) ==
    /\ handlers[h].pc = "half"
    /\ IF handlers[h].algorithm = "collaborative"
       THEN LET r == calculate_user_similarity(Get(collaborative_recommender), interactions, fp)
            IN  /\ collaborative_recommender' = Some(r.self)
                /\ Built(h, r)
                /\ UNCHANGED content_recommender
       ELSE LET r == build_tfidf_matrix(Get(content_recommender), products, sqltie)
            IN  /\ content_recommender' = Some(r.self)
                /\ Built(h, r)
                /\ UNCHANGED collaborative_recommender
    /\ UNCHANGED <<products, interactions, last>>

Answered(h, f) ==
    /\ content_recommender' = f.content
    /\ collaborative_recommender' = f.collab
    /\ handlers' = [handlers EXCEPT ![h].pc = "idle",
                                    ![h].status = IF f.raised THEN 500 ELSE 200]

Answer(h, limit, sqltie, t) ==
    \E recs \in t.outcomes : Answered(h, OrPopular(t, recs, limit, sqltie))

\* the rest of get_user_recommendations once the getter has returned or
\* raised
Finish(h, user_id, limit, tie, sqltie, fp) ==
    /\ handlers[h].pc \in {"got", "raised"}
    /\ IF handlers[h].pc = "raised"
       THEN Answered(h, [raised |-> TRUE, content |-> content_recommender,
                         collab |-> collaborative_recommender])
       ELSE IF handlers[h].algorithm = "collaborative"
       THEN Answer(h, limit, sqltie,
                   CollabRecsOf([raised |-> FALSE, g |-> collaborative_recommender],
                                content_recommender, user_id, limit, tie, sqltie, fp))
       ELSE Answer(h, limit, sqltie,
                   ContentRecsOf([raised |-> FALSE, g |-> content_recommender],
                                 collaborative_recommender, user_id, limit, tie, sqltie))
    /\ UNCHANGED <<products, interactions, last>>

InitRace ==
    /\ products = Catalog3
    /\ interactions \in {SeedRows(d) : d \in ApiData}
    /\ collaborative_recommender = <<>>
    /\ content_recommender = <<>>
    /\ last = Idle
    /\ handlers = NoHandlers

NextRace ==
    \/ \E h \in HandlerIds, a \in {"content", "collaborative"} : Arrive(h, a)
    \/ \E h \in HandlerIds : Enter(h)
    \/ \E h \in HandlerIds, sqltie \in TieOrders : BuildFirst(h, sqltie)
    \/ \E h \in HandlerIds, sqltie \in TieOrders,
          fp \in RoundingsFor(collaborative_recommender, interactions) :
           BuildSecond(h, sqltie, fp)
    \/ \E h \in HandlerIds, u \in QueryUserIds, tie \in TieOrders, sqltie \in TieOrders,
          fp \in RoundingsFor(collaborative_recommender, interactions) :
           Finish(h, u, 1, tie, sqltie, fp)

SpecRace == InitRace /\ [][NextRace]_vars

(***************************************************************************)
(* _combine_recommendations on the lists the two recommenders can hand it  *)
(***************************************************************************)
\* Product ids in a list, each once
IdLists ==
    UNION {{ids \in [1..k -> 1..3] : \A i, j \in 1..k : i # j => ids[i] # ids[j]}
              : k \in 0..MaxRecs}

Scored(ids, scores) == [k \in 1..Len(ids) |-> Entry(ids[k], scores[k])]

NonIncreasing(scores) == \A k \in 1..(Len(scores) - 1) : scores[k] >= scores[k + 1]

\* What a recommender returns: its scored list, best first, or the
\* popularity fallback, whose entries carry no score
ScoredLists(values) ==
    UNION {{Scored(ids, scores) : scores \in {sc \in [1..Len(ids) -> values] : NonIncreasing(sc)}}
              : ids \in IdLists}

FallbackLists == {Scored(ids, [k \in 1..Len(ids) |-> None]) : ids \in IdLists}

\* The scores of a catalog whose largest price is 0
NaNLists == {Scored(ids, [k \in 1..Len(ids) |-> NaN]) : ids \in IdLists}

ContentRecs == ScoredLists({3 * SimScale, 5 * SimScale}) \cup FallbackLists \cup NaNLists

CollabRecs == ScoredLists({SimScale, 3 * SimScale}) \cup FallbackLists

CombineReturned(content_recs, collab_recs, limit, out) ==
    last' = [op |-> "combine_recommendations", content_recs |-> content_recs,
             collab_recs |-> collab_recs, limit |-> limit, out |-> out]

call_combine_recommendations(content_recs, collab_recs, limit) ==
    /\ last = Idle
    /\ \E out \in combine_recommendations(content_recs, collab_recs, limit) :
           CombineReturned(content_recs, collab_recs, limit, out)
    /\ UNCHANGED <<products, interactions, collaborative_recommender, content_recommender, handlers>>

InitCombine ==
    /\ products = Catalog3
    /\ interactions = <<>>
    /\ collaborative_recommender = <<>>
    /\ content_recommender = <<>>
    /\ last = Idle
    /\ handlers = NoHandlers

NextCombine ==
    \/ \E content_recs \in ContentRecs, collab_recs \in CollabRecs, limit \in Limits :
           call_combine_recommendations(content_recs, collab_recs, limit)
    \/ Deliver

SpecCombine == InitCombine /\ [][NextCombine]_vars

(***************************************************************************)
(* Properties of the collaborative recommender                             *)
(***************************************************************************)
TheMatrix == Get(Get(collaborative_recommender).user_item_matrix)
TheSimilarity == Get(Get(collaborative_recommender).user_similarity_matrix).cell
TheInexact == Get(Get(collaborative_recommender).user_similarity_matrix).inexact

MatrixBuilt ==
    /\ ~IsNone(collaborative_recommender)
    /\ ~IsNone(Get(collaborative_recommender).user_item_matrix)

SimilarityBuilt ==
    /\ MatrixBuilt
    /\ ~IsNone(Get(collaborative_recommender).user_similarity_matrix)

\* C1: whatever path get_recommendations(u, ...) returns by, the list it
\* returns for a user u of the matrix holds no product whose cell in u's
\* row of the matrix is positive.
C1_NoOwnProducts ==
    (last.op = "get_recommendations" /\ ~last.raised /\ last.user_id \in TheMatrix.index)
      => \A k \in 1..Len(last.out) :
             last.out[k].product_id \notin RatedBy(TheMatrix, last.user_id)

\* C4: for a user u of the matrix get_similar_users(u, n) returns at most n
\* other users, never u itself, each with its similarity to u, in
\* non-increasing order of similarity, and no user left out is more similar
\* to u than a user returned.
C4_SimilarUsers ==
    (last.op = "get_similar_users" /\ ~last.raised /\ last.user_id \in TheMatrix.index)
      => /\ \A k \in 1..Len(last.out) : last.out[k][1] \in TheMatrix.index \ {last.user_id}
         /\ \A j, k \in 1..Len(last.out) : j # k => last.out[j][1] # last.out[k][1]
         /\ Len(last.out) = Min({last.n, Cardinality(TheMatrix.index) - 1})
         /\ \A k \in 1..Len(last.out) :
                last.out[k][2] = TheSimilarity[<<last.out[k][1], last.user_id>>]
         /\ \A k \in 1..(Len(last.out) - 1) : last.out[k][2] >= last.out[k + 1][2]
         /\ \A v \in TheMatrix.index \ {last.user_id} :
                (\A k \in 1..Len(last.out) : last.out[k][1] # v)
                  => \A k \in 1..Len(last.out) :
                         last.out[k][2] >= TheSimilarity[<<v, last.user_id>>]

\* C5: for a user absent from the user-item matrix get_recommendations
\* returns normally, and what it returns is the popularity fallback for n.
C5_ColdStart ==
    (last.op = "get_recommendations" /\ MatrixBuilt /\ last.user_id \notin TheMatrix.index)
      => /\ ~last.raised
         /\ \E sqltie \in TieOrders :
                last.out = popular_products(products, interactions, last.n, sqltie)

\* The data in another order, and with one of its events once more
Orderings(n) == {f \in [1..n -> 1..n] : \A i, j \in 1..n : i # j => f[i] # f[j]}

Reordered(rows) ==
    {[i \in 1..Len(rows) |-> rows[f[i]]] : f \in Orderings(Len(rows))}

Duplicated(rows) ==
    {rows \o <<rows[i]>> : i \in 1..Len(rows)} \cup {<<rows[i]>> \o rows : i \in 1..Len(rows)}

FoldedScores(rows, u, p) ==
    {ScoreOf(rows[i]) : i \in {j \in 1..Len(rows) : /\ rows[j].user_id = u
                                                    /\ rows[j].product_id = p}} \ {None}

\* C6: the user-item matrix is the same whatever the order of the events
\* and however often an event is repeated, and each of its cells is the
\* largest folded score of the events of its (user, product) pair (0 when
\* the pair has none).
C6_OrderInvariant ==
    MatrixBuilt =>
      /\ \A rows \in Reordered(interactions) \cup Duplicated(interactions) :
             build_user_item_matrix(rows) = TheMatrix
      /\ \A c \in DOMAIN TheMatrix.cell :
             TheMatrix.cell[c] = IF FoldedScores(interactions, c[1], c[2]) = {} THEN 0
                                 ELSE Max(FoldedScores(interactions, c[1], c[2]))

\* a matrix built from two events of one pair, the larger score first
C6_Witness ==
    /\ MatrixBuilt
    /\ \E i, j \in 1..Len(interactions) :
           /\ i < j
           /\ interactions[i].user_id = interactions[j].user_id
           /\ interactions[i].product_id = interactions[j].product_id
           /\ ScoreOf(interactions[j]) # None
           /\ ScoreOf(interactions[i]) > ScoreOf(interactions[j])

\* C7: every cell of the user-item matrix is at least 0, its row labels
\* are exactly the user ids of the interactions and its column labels
\* exactly their product ids.
C7_MatrixShape ==
    MatrixBuilt =>
      /\ \A c \in DOMAIN TheMatrix.cell : TheMatrix.cell[c] >= 0
      /\ TheMatrix.index = {interactions[i].user_id : i \in 1..Len(interactions)}
      /\ TheMatrix.columns = {interactions[i].product_id : i \in 1..Len(interactions)}

\* C8: the user similarity matrix is symmetric and every user's similarity
\* to itself is exactly 1.
C8_Symmetric ==
    SimilarityBuilt =>
      \A u, v \in TheMatrix.index :
          /\ TheSimilarity[<<u, v>>] = TheSimilarity[<<v, u>>]
          /\ TheSimilarity[<<u, u>>] = SimScale
          /\ <<u, u>> \notin TheInexact

(***************************************************************************)
(* Properties of the content recommender                                   *)
(***************************************************************************)
TheFrame == Get(Get(content_recommender).products_df)

\* C2: GET /similar/{product_id} for a product_id no product has, so that
\* get_similar_products returns the empty list, answers 404.
C2_UnknownIs404 ==
    (last.op = "api_similar" /\ last.path = "not_found"
       /\ last.product_id \notin ProductIdsOf(products))
      => last.status = 404

\* C3: for a user with a history the content recommendations hold no
\* product the user has interacted with, however long the history is.
C3_NoSeenProducts ==
    (last.op = "get_recommendations_for_user" /\ last.path = "similar")
      => \A k \in 1..Len(last.out) :
             last.out[k].product_id \notin HistoryProducts(products, interactions, last.user_id)

\* C9: get_similar_products(p, ...) never returns p itself, and the scores
\* of what it returns are non-increasing.
C9_NoSelfSorted ==
    (last.op = "get_similar_products" /\ last.path = "similar")
      => /\ \A k \in 1..Len(last.out) : last.out[k].product_id # last.product_id
         /\ \A k \in 1..(Len(last.out) - 1) : Geq(last.out[k].score, last.out[k + 1].score)

\* The other products by score descending, those of a score of at least
\* min_score, as entries
QueryIndex == Min(IndexOf(TheFrame, last.product_id))

OthersRanked(tie) ==
    LET Other(i) == i # QueryIndex
    IN  SelectSeq(ArgsortDescending(calculate_similarity(Get(content_recommender), QueryIndex),
                                    tie), Other)

ScoredAtLeast(order, scores, min_score) ==
    LET Enough(i) == Geq(scores[i], min_score)
        kept == SelectSeq(order, Enough)
    IN  [k \in 1..Len(kept) |-> Entry(TheFrame[kept[k]].id, scores[kept[k]])]

\* C10: get_similar_products returns at most n entries, each of a score of
\* at least min_score; they are the first n of the other products sorted by
\* score descending and filtered by score >= min_score, so none when the
\* best other product scores below min_score.
C10_TopFiltered ==
    (last.op = "get_similar_products" /\ last.path = "similar")
      => /\ Len(last.out) <= last.n
         /\ \A k \in 1..Len(last.out) : Geq(last.out[k].score, last.min_score)
         /\ \E tie \in TieOrders :
                last.out = Take(ScoredAtLeast(OthersRanked(tie),
                                              calculate_similarity(Get(content_recommender),
                                                                   QueryIndex),
                                              last.min_score), last.n)

Loaded(g) ==
    /\ ~IsNone(g)
    /\ ~IsNone(Get(g).products_df)
    /\ ~IsNone(Get(g).tfidf_matrix)

\* C11: get_similar_products called with a product id no row of the loaded
\* catalog has returns the empty list without raising, and a recommender
\* whose catalog and text index are loaded holds the same catalog and text
\* index after the call.
C11_UnknownProduct ==
    [][(last'.op = "get_similar_products"
          /\ last'.product_id \notin ProductIdsOf(products))
         => /\ ~last'.raised
            /\ last'.out = <<>>
            /\ Loaded(content_recommender)
                 => content_recommender' = content_recommender]_vars

\* an unknown id asked of a recommender that holds its catalog and index
C11_Witness ==
    /\ last.op = "get_similar_products"
    /\ last.product_id \notin ProductIdsOf(products)
    /\ last.path = "not_found"
    /\ Loaded(content_recommender)

MaxPrice(df) == Max({df[k].price : k \in 1..Len(df)})

Defined(score) == score # NaN

\* C20: on a catalog whose largest price is 0 every score calculate_similarity
\* yields is a defined number, and the entries get_similar_products returns
\* carry defined scores in non-increasing order.
C20_ZeroMaxPrice ==
    (last.op = "get_similar_products" /\ last.path = "similar" /\ MaxPrice(TheFrame) = 0)
      => /\ \A k \in 1..Len(TheFrame) :
                Defined(calculate_similarity(Get(content_recommender), QueryIndex)[k])
         /\ \A k \in 1..Len(last.out) : Defined(last.out[k].score)
         /\ \A k \in 1..(Len(last.out) - 1) : Geq(last.out[k].score, last.out[k + 1].score)

\* no product other than the queried one scores at least min_score
NoSimilarItems(min_score) ==
    \A k \in 1..Len(TheFrame) :
        k # QueryIndex
          => ~Geq(calculate_similarity(Get(content_recommender), QueryIndex)[k], min_score)

\* C14: GET /similar/{product_id} for a product of the catalog that no other
\* product is similar to at the threshold does not answer with an error
\* status.
C14_NoSimilarIsNoFailure ==
    (last.op = "api_similar" /\ last.path = "similar"
       /\ last.product_id \in ProductIdsOf(products)
       /\ NoSimilarItems(DefaultMinScore))
      => last.status < 400

(***************************************************************************)
(* Properties of POST /api/interactions                                    *)
(***************************************************************************)
ValidRequest(type, rating) ==
    /\ type \in ValidTypes
    /\ type = "rating" => (rating # None /\ rating >= 1 /\ rating <= 5)

StoredValid(rows) ==
    \A i \in 1..Len(rows) : ValidRequest(rows[i].interaction_type, rows[i].rating)

\* C17: a tracking request whose type is not one of view, purchase, rating,
\* wishlist, or whose type is rating with no rating or one outside 1..5, is
\* answered with a 4xx status and inserts no row; every stored interaction
\* has a valid type, and a rating in 1..5 if its type is rating.
C17_InvalidRejected ==
    [][/\ (last'.op = "track_interaction"
            /\ ~ValidRequest(last'.interaction_type, last'.rating))
          => /\ last'.status \in 400..499
             /\ interactions' = interactions
        /\ StoredValid(interactions')]_vars

\* a rating request without a rating was refused and nothing was inserted
C17_Witness ==
    /\ last.op = "track_interaction"
    /\ last.interaction_type = "rating"
    /\ last.rating = None
    /\ last.status = 400
    /\ Tracked = 0

(***************************************************************************)
(* Properties of the popularity fallback                                   *)
(***************************************************************************)
Rated(p) == products[p].rating # None

\* p may come before q: it has more interactions, or as many and, when
\* both carry a catalog rating, a rating at least as high
MayPrecede(p, q) ==
    \/ InteractionCount(interactions, p) > InteractionCount(interactions, q)
    \/ /\ InteractionCount(interactions, p) = InteractionCount(interactions, q)
       /\ (Rated(p) /\ Rated(q)) => products[p].rating >= products[q].rating

PopularityRanked(out, n) ==
    /\ Len(out) = Min({n, Cardinality(ProductIdsOf(products))})
    /\ \A k \in 1..Len(out) : out[k].product_id \in ProductIdsOf(products)
    /\ \A j, k \in 1..Len(out) : j < k => /\ out[j].product_id # out[k].product_id
                                           /\ MayPrecede(out[j].product_id, out[k].product_id)
    /\ \A q \in ProductIdsOf(products) \ {out[k].product_id : k \in 1..Len(out)} :
           \A k \in 1..Len(out) : MayPrecede(out[k].product_id, q)

\* C19: the popularity fallback of either recommender returns exactly
\* min(n, |catalog|) distinct products, products without interactions
\* included with a count of zero, ordered by interaction count descending
\* and, among products of equal count, by catalog rating descending; no
\* product left out ranks before a product returned.
C19_PopularityRanked ==
    /\ (last.op = "get_recommendations_for_user" /\ last.path = "popular")
          => PopularityRanked(last.out, last.n)
    /\ \A n \in Limits, sqltie \in TieOrders :
           PopularityRanked(popular_products(products, interactions, n, sqltie), n)

\* the fallback answered for a user without history, with a product nobody
\* interacted with among those it returned
C19_Witness ==
    /\ last.op = "get_recommendations_for_user"
    /\ last.path = "popular"
    /\ \E k \in 1..Len(last.out) : InteractionCount(interactions, last.out[k].product_id) = 0
    /\ \E j \in 1..Len(last.out) : InteractionCount(interactions, last.out[j].product_id) > 0

(***************************************************************************)
(* Properties of _combine_recommendations                                  *)
(***************************************************************************)
\* the score of p in a source list, 0 if the list does not hold p or holds
\* it without a score
SourceScore(recs, p) ==
    IF Holds(recs, p) /\ ScoreIn(recs, p) # None THEN ScoreIn(recs, p) ELSE 0

\* 0.6 * collaborative_score + 0.4 * content_score, in 1/(100*SimScale)
RankScore(p) ==
    Plus(Times(60, SourceScore(last.collab_recs, p)), Times(4, SourceScore(last.content_recs, p)))

SourceIds == Range(IdsOf(last.collab_recs)) \cup Range(IdsOf(last.content_recs))

\* C12: _combine_recommendations returns at most limit entries, one per
\* product, of products of either list, in non-increasing order of
\* 0.6 * collaborative score + 0.4 * content score (a score absent or null
\* counting as 0), and no product left out scores higher than one returned.
C12_HybridRanking ==
    last.op = "combine_recommendations"
      => /\ Len(last.out) = Min({last.limit, Cardinality(SourceIds)})
         /\ \A k \in 1..Len(last.out) : last.out[k].product_id \in SourceIds
         /\ \A j, k \in 1..Len(last.out) :
                j < k => /\ last.out[j].product_id # last.out[k].product_id
                         /\ Geq(RankScore(last.out[j].product_id),
                                RankScore(last.out[k].product_id))
         /\ \A q \in SourceIds \ Range(IdsOf(last.out)) :
                \A k \in 1..Len(last.out) :
                    Geq(RankScore(last.out[k].product_id), RankScore(q))

(***************************************************************************)
(* Properties of the recommendation endpoints                              *)
(***************************************************************************)
\* C13: on a catalog that is not empty GET /for-user/{user_id} answers 200
\* with a list that is not empty, for every user id, algorithm and limit.
C13_ForUserNonEmpty ==
    (last.op = "api_for_user" /\ products # <<>>)
      => /\ last.status = 200
         /\ last.recommendations # <<>>

Carries(body, fields) ==
    \A name \in fields : name \in DOMAIN body /\ body[name] # None

\* C18: GET /metrics answers 200 for either algorithm, with algorithm,
\* total_users, total_products, sparsity, avg_interactions_per_user and a
\* coverage for collaborative, and with total_products,
\* avg_similarity_score, the vocabulary size and coverage for content.
C18_MetricsSnapshot ==
    last.op = "api_metrics"
      => /\ last.status = 200
         /\ last.algorithm = "collaborative"
              => /\ Carries(last.body, {"algorithm", "total_users", "total_products",
                                        "sparsity", "avg_interactions_per_user"})
                 /\ \/ Carries(last.body, {"coverage"})
                    \/ Carries(last.body, {"coverage_users", "coverage_products"})
         /\ last.algorithm = "content"
              => Carries(last.body, {"total_products", "avg_similarity_score",
                                     "tfidf_features", "coverage"})

\* the structure a recommender holds under a name, if it holds one
Held(g, name) == IF IsNone(g) THEN <<>> ELSE Get(g)[name]

KeepsBuilt(g, h, name) == ~IsNone(Held(g, name)) => Held(h, name) = Held(g, name)

\* C15: a user-item matrix, a user similarity matrix, a catalog frame or a
\* text index that a recommender instance holds is the one it holds after
\* every later request: nothing is built a second time.
C15_BuiltOnce ==
    [][/\ KeepsBuilt(collaborative_recommender, collaborative_recommender', "user_item_matrix")
       /\ KeepsBuilt(collaborative_recommender, collaborative_recommender',
                     "user_similarity_matrix")
       /\ KeepsBuilt(content_recommender, content_recommender', "products_df")
       /\ KeepsBuilt(content_recommender, content_recommender', "tfidf_matrix")]_vars

(***************************************************************************)
(* Properties of the first access to a singleton                           *)
(***************************************************************************)
Building(h) == handlers[h].pc \in {"created", "half"}

\* C16: with several requests in flight on the first access, at most one
\* handler is building the shared instance at any time, and the instance
\* the getter hands a handler has all its structures built.
C16_SerializedBuild ==
    /\ Cardinality({h \in HandlerIds : Building(h)}) <= 1
    /\ \A h \in HandlerIds : handlers[h].pc = "got" => handlers[h].observed = "built"

(***************************************************************************)
(* Properties of neighbour scoring                                         *)
(***************************************************************************)
\* the users other than u, at most NeighbourPool of them, that no user left
\* out is more similar to u than
MostSimilar(u) ==
    {v \in TheMatrix.index \ {u} :
        Cardinality({w \in TheMatrix.index \ {u, v} :
                        TheSimilarity[<<w, u>>] > TheSimilarity[<<v, u>>]}) < NeighbourPool}

Eligible(u, min_similarity) ==
    {v \in MostSimilar(u) : TheSimilarity[<<v, u>>] >= min_similarity}

ContributionOf(S, u, p) ==
    SumOver([v \in S |-> TheMatrix.cell[<<v, p>>] * TheSimilarity[<<v, u>>]], S)

IsFallback(out, n) ==
    \E sqltie \in TieOrders : out = popular_products(products, interactions, n, sqltie)

KnownUserReturn ==
    /\ last.op = "get_recommendations"
    /\ ~last.raised
    /\ SimilarityBuilt
    /\ last.user_id \in TheMatrix.index

CandidatesOf(S, u) ==
    {p \in TheMatrix.columns :
        /\ TheMatrix.cell[<<u, p>>] = 0
        /\ \E v \in S : TheMatrix.cell[<<v, p>>] > 0}

ScoredFrom(S, u, out, n) ==
    /\ \A k \in 1..Len(out) : out[k].product_id \in CandidatesOf(S, u)
    /\ \A j, k \in 1..Len(out) : j # k => out[j].product_id # out[k].product_id
    /\ Len(out) = Min({n, Cardinality(CandidatesOf(S, u))})
    /\ \A k \in 1..Len(out) : out[k].score = ContributionOf(S, u, out[k].product_id)
    /\ \A k \in 1..(Len(out) - 1) : out[k].score >= out[k + 1].score
    /\ \A p \in CandidatesOf(S, u) :
           (\A k \in 1..Len(out) : out[k].product_id # p)
             => \A k \in 1..Len(out) : out[k].score >= ContributionOf(S, u, p)

\* C22: when get_recommendations returns for a user u of the matrix that
\* has a neighbour of similarity at least min_similarity, the list holds
\* the n products with the highest scores among those u has cell 0 for and
\* a retained neighbour scored, in non-increasing order of score, the score
\* of p being the sum of M[v,p] * sim(u,v) over the retained neighbours v;
\* with no such product the popularity fallback is returned.
C22_NeighbourScores ==
    (KnownUserReturn /\ Eligible(last.user_id, last.min_similarity) # {})
      => IF CandidatesOf(Eligible(last.user_id, last.min_similarity), last.user_id) = {}
         THEN IsFallback(last.out, last.n)
         ELSE ScoredFrom(Eligible(last.user_id, last.min_similarity),
                         last.user_id, last.out, last.n)

\* two retained neighbours scored more products than n, and the best n
\* were returned with their scores
C22_Witness ==
    /\ KnownUserReturn
    /\ Cardinality(Eligible(last.user_id, last.min_similarity)) > 1
    /\ Cardinality(CandidatesOf(Eligible(last.user_id, last.min_similarity),
                                last.user_id)) > last.n
    /\ Len(last.out) = last.n
    /\ \A k \in 1..Len(last.out) : last.out[k].score # None /\ last.out[k].score > 0

(***************************************************************************)
(* Properties of the content recommendations of a user                     *)
(***************************************************************************)
\* the similar-product list of a history product, as the loop asks for it
SimilarListOf(h, tie) ==
    get_similar_products(Get(content_recommender), products, h,
                         FanOut, DefaultMinScore, tie, "asc").out

\* the sum of the scores p has in the similar lists of the history window
SummedScore(u, p, tie) ==
    TotalScore([j \in 1..Len(RecentHistory(products, interactions, u)) |->
                   SimilarListOf(RecentHistory(products, interactions, u)[j], tie)], p)

InSomeList(u, p, tie) ==
    \E j \in 1..Len(RecentHistory(products, interactions, u)) :
        Holds(SimilarListOf(RecentHistory(products, interactions, u)[j], tie), p)

\* C23: for a user with a history, every product get_recommendations_for_user
\* returns is in the similar list of a product of the history window and
\* carries the sum of its scores over the lists that hold it; the result is
\* in non-increasing order of that sum and has at most n entries.
C23_SummedScores ==
    (last.op = "get_recommendations_for_user" /\ ~last.raised
       /\ RecentHistory(products, interactions, last.user_id) # <<>>)
      => \E tie \in TieOrders :
            /\ \A k \in 1..Len(last.out) :
                   /\ InSomeList(last.user_id, last.out[k].product_id, tie)
                   /\ last.out[k].score = SummedScore(last.user_id, last.out[k].product_id, tie)
            /\ \A k \in 1..(Len(last.out) - 1) : Geq(last.out[k].score, last.out[k + 1].score)
            /\ Len(last.out) <= last.n

(***************************************************************************)
(* calculate_similarity called directly, as get_metrics and                *)
(* test_algorithm() do, with the blend in binary floating point            *)
(* The cosine of a row with itself, or with an equal row, is the dot       *)
(* product of two normalised rows: exactly 1.0 for a row of one term, and  *)
(* for a row of several terms 1.0 or a neighbour of it above or below.     *)
(* `above` is the set of rows whose cosine came out above 1.0.  For such a *)
(* row of the same category and price                                      *)
(* 0.6 * 1.0000000000000002 + 0.3 * 1.0 + 0.1 * 1.0 = 1.0000000000000002.  *)
(***************************************************************************)
TextRoundable(self, product_idx) ==
    {k \in 1..Len(Get(self.tfidf_matrix)) :
        /\ TextCosine(Get(self.tfidf_matrix)[product_idx], Get(self.tfidf_matrix)[k]) = SimScale
        /\ Cardinality(Get(self.tfidf_matrix)[product_idx]) > 1}

Components(self, product_idx, k, above) ==
    [text     |-> TextCosine(Get(self.tfidf_matrix)[product_idx], Get(self.tfidf_matrix)[k]),
     category |-> IF Get(self.products_df)[k].category
                       = Get(self.products_df)[product_idx].category THEN SimScale ELSE 0,
     price_i  |-> Get(self.products_df)[k].price,
     combined |-> calculate_similarity(self, product_idx)[k],
     exceeds  |-> k \in above /\ calculate_similarity(self, product_idx)[k] = 10 * SimScale]

BlendOf(self, product_idx, above) ==
    AsSeq([k \in 1..Len(Get(self.products_df)) |-> Components(self, product_idx, k, above)])

SimilarityCalculated(product_idx, g, above) ==
    /\ content_recommender' = g
    /\ last' = [op |-> "calculate_similarity", product_idx |-> product_idx,
                out |-> BlendOf(Get(g), product_idx, above)]

call_calculate_similarity(product_idx, above, sqltie) ==
    /\ last = Idle
    /\ product_idx \in DOMAIN products
    /\ above \subseteq TextRoundable(
           Get(get_content_recommender(content_recommender, products, sqltie).g), product_idx)
    /\ SimilarityCalculated(product_idx,
                            get_content_recommender(content_recommender, products, sqltie).g,
                            above)
    /\ UNCHANGED <<products, interactions, collaborative_recommender, handlers>>

InitBlend ==
    /\ products \in Catalogs
    /\ interactions = <<>>
    /\ collaborative_recommender = <<>>
    /\ content_recommender = <<>>
    /\ last = Idle
    /\ handlers = NoHandlers

NextBlend ==
    \/ \E product_idx \in 1..3, above \in SUBSET (1..3), sqltie \in TieOrders :
           call_calculate_similarity(product_idx, above, sqltie)
    \/ Deliver

SpecBlend == InitBlend /\ [][NextBlend]_vars

(***************************************************************************)
(* Properties of the blended score                                         *)
(***************************************************************************)
InUnit(x, scale) == x # NaN /\ 0 <= x /\ x <= scale

PricesOf(df) == {df[k].price : k \in 1..Len(df)}

\* C25: every score of calculate_similarity is 0.6 * text + 0.3 * category
\* + 0.1 * price, category being 1 for the category of the reference
\* product and 0 otherwise and price being 1 - |price_i - price_ref| /
\* max_price; on a catalog of prices >= 0 with a positive maximum the price
\* part and the score are in [0, 1], and a product at the reference price
\* has price part 1.
C25_Blend ==
    (last.op = "calculate_similarity"
       /\ \A p \in PricesOf(TheFrame) : p >= 0
       /\ Max(PricesOf(TheFrame)) > 0)
      => \A k \in 1..Len(last.out) :
            LET e == last.out[k]
                price == PriceSim(Abs(e.price_i - TheFrame[last.product_idx].price),
                                  Max(PricesOf(TheFrame)))
            IN  /\ e.category \in {0, SimScale}
                /\ e.category = SimScale
                     <=> TheFrame[k].category = TheFrame[last.product_idx].category
                /\ e.combined = 6 * e.text + 3 * e.category + price
                /\ InUnit(price, SimScale)
                /\ e.price_i = TheFrame[last.product_idx].price => price = SimScale
                /\ InUnit(e.combined, 10 * SimScale)
                /\ ~e.exceeds

(***************************************************************************)
(* The service over a repository that can be unavailable during a request: *)
(* the endpoints, and the query methods called on the singletons           *)
(***************************************************************************)
InitService ==
    /\ products = Catalog3
    /\ interactions \in {SeedRows(d) : d \in ApiData}
    /\ collaborative_recommender = <<>>
    /\ content_recommender = <<>>
    /\ last = Idle
    /\ handlers = NoHandlers

NextService ==
    \/ \E u \in QueryUserIds, n \in Limits, a \in Algorithms, db \in Availability,
          tie \in TieOrders, sqltie \in TieOrders,
          fp \in RoundingsFor(collaborative_recommender, interactions) :
           api_get_user_recommendations(u, n, a, db, tie, sqltie, fp)
    \/ \E n \in Limits, db \in Availability, sqltie \in TieOrders :
           api_get_popular_products(n, db, sqltie)
    \/ \E a \in {"content", "collaborative"}, sqltie \in TieOrders,
          fp \in RoundingsFor(collaborative_recommender, interactions) :
           api_get_metrics(a, sqltie, fp)
    \/ \E u \in QueryUserIds, n \in Limits, tie \in TieOrders,
          fp \in RoundingsFor(collaborative_recommender, interactions) :
           call_get_similar_users(u, n, tie, fp)
    \/ \E u \in QueryUserIds, n \in Limits, tie \in TieOrders, sqltie \in TieOrders,
          fp \in RoundingsFor(collaborative_recommender, interactions) :
           call_get_recommendations(u, n, DefaultMinSimilarity, tie, sqltie, fp)
    \/ \E p \in {1, 2, 999}, n \in Limits, tie \in TieOrders, sqltie \in TieOrders :
           call_get_similar_products(p, n, DefaultMinScore, tie, sqltie)
    \/ \E u \in QueryUserIds, n \in Limits, tie \in TieOrders, sqltie \in TieOrders :
           call_get_recommendations_for_user(u, n, tie, sqltie)
    \/ Deliver

SpecService == InitService /\ [][NextService]_vars

(***************************************************************************)
(* Properties of the service under repository failures                     *)
(***************************************************************************)
\* C24: get_recommendations_for_user(u, n) for a user without any
\* interaction in the store returns normally, and what it returns is the
\* popularity fallback for n, whether or not the instance has its text
\* index.
C24_EmptyHistory ==
    (last.op = "get_recommendations_for_user"
       /\ HistoryProducts(products, interactions, last.user_id) = {})
      => /\ ~last.raised
         /\ IsFallback(last.out, last.n)

\* the call found an instance without its text index, returned the
\* fallback and left the index unbuilt
C24_Witness ==
    /\ last.op = "get_recommendations_for_user"
    /\ HistoryProducts(products, interactions, last.user_id) = {}
    /\ last.found = "unbuilt"
    /\ ContentStanding = "unbuilt"
    /\ ~last.raised
    /\ last.out # <<>>
    /\ IsFallback(last.out, last.n)

\* a failure inside the handler: the repository went away, or the
\* similarity of a user-item matrix without a row was asked for
FailureMet ==
    \/ last.repository # "up"
    \/ /\ last.op = "api_for_user"
       /\ last.algorithm \in {"collaborative", "hybrid"}
       /\ build_user_item_matrix(interactions).index = {}

\* C26: a request to /for-user or /popular that meets a failure inside is
\* answered 500 without any recommendation; every other one is answered
\* 200.
C26_FailureIs500 ==
    last.op \in {"api_for_user", "api_popular"}
      => /\ last.status \in {200, 500}
         /\ FailureMet => last.status = 500
         /\ last.status = 500 => last.recommendations = <<>> /\ last.count = None
         /\ last.status = 200 => FailureMet = FALSE

\* the repository went away after the getter had built the instance, and
\* the request was answered 500
C26_Witness ==
    /\ last.op = "api_for_user"
    /\ last.repository = "lost"
    /\ last.algorithm = "hybrid"
    /\ ContentStanding = "built"
    /\ CollabStanding = "built"
    /\ last.status = 500
    /\ last.recommendations = <<>>

\* C27: a query method that returns normally has computed on built
\* structures, also when the instance it found had been left unbuilt by a
\* failed initialisation: get_similar_users and get_recommendations leave
\* both matrices built, get_similar_products and a
\* get_recommendations_for_user that looked for similar products leave the
\* catalog and the text index built, get_metrics leaves what it measures
\* built; a query of the collaborative methods raises only when the matrix
\* the instance then holds has no row to compare.
C27_NoUnbuiltUse ==
    /\ (last.op \in {"get_similar_users", "get_recommendations"} /\ ~last.raised)
         => CollabStanding = "built"
    /\ (last.op \in {"get_similar_users", "get_recommendations"} /\ last.raised)
         => MatrixBuilt /\ TheMatrix.index = {}
    /\ (last.op = "get_similar_products" /\ ~last.raised) => ContentStanding = "built"
    /\ last.op = "get_similar_products" => ~last.raised
    /\ (last.op = "get_recommendations_for_user" /\ last.path = "similar")
         => ContentStanding = "built"
    /\ (last.op = "api_metrics" /\ last.algorithm = "content")
         => last.status = 200 /\ ContentStanding = "built"
    /\ (last.op = "api_metrics" /\ last.algorithm = "collaborative") => MatrixBuilt

\* get_similar_users found an instance a failed initialisation had left
\* without its matrices, built them and returned neighbours
C27_Witness ==
    /\ last.op = "get_similar_users"
    /\ last.found = "unbuilt"
    /\ ~last.raised
    /\ CollabStanding = "built"
    /\ last.out # <<>>

(***************************************************************************)
(* The queries repeated on a store that does not change, with a catalog    *)
(* of three products or one larger than the sample of get_metrics          *)
(***************************************************************************)
InitRepeat ==
    /\ products \in {Catalog3, BigCatalog}
    /\ interactions = SeedRows(<<Row(1, 1, "view", None), Row(2, 1, "view", None),
                                 Row(2, 2, "purchase", None)>>)
    /\ collaborative_recommender = <<>>
    /\ content_recommender = <<>>
    /\ last = Idle
    /\ handlers = NoHandlers

NextRepeat ==
    \/ \E u \in {1, 2, 999}, tie \in TieOrders,
          fp \in RoundingsFor(collaborative_recommender, interactions) :
           call_get_similar_users(u, 1, tie, fp)
    \/ \E u \in {1, 2, 999}, tie \in TieOrders, sqltie \in TieOrders,
          fp \in RoundingsFor(collaborative_recommender, interactions) :
           call_get_recommendations(u, 1, DefaultMinSimilarity, tie, sqltie, fp)
    \/ \E p \in {1, 2}, tie \in TieOrders, sqltie \in TieOrders :
           call_get_similar_products(p, 1, DefaultMinScore, tie, sqltie)
    \/ \E u \in {1, 2, 999}, tie \in TieOrders, sqltie \in TieOrders :
           call_get_recommendations_for_user(u, 1, tie, sqltie)
    \/ \E u \in {1, 999}, tie \in TieOrders, sqltie \in TieOrders,
          fp \in RoundingsFor(collaborative_recommender, interactions) :
           api_get_user_recommendations(u, 1, "hybrid", "up", tie, sqltie, fp)
    \/ \E sqltie \in TieOrders : api_get_popular_products(1, "up", sqltie)
    \/ \E a \in {"content", "collaborative"}, sqltie \in TieOrders,
          fp \in RoundingsFor(collaborative_recommender, interactions) :
           api_get_metrics(a, sqltie, fp)
    \/ Deliver

SpecRepeat == InitRepeat /\ [][NextRepeat]_vars

(***************************************************************************)
(* Properties of repeated queries                                          *)
(***************************************************************************)
\* a built instance is the same after the step
FrameKept ==
    /\ CollabStanding = "built" => collaborative_recommender' = collaborative_recommender
    /\ ContentStanding = "built" => content_recommender' = content_recommender

\* the metrics just answered are the ones any other call on this instance
\* and store answers
SameOnRepeat ==
    (last.op = "api_metrics" /\ last.algorithm = "content" /\ last.status = 200)
      => \A sample \in Samples(Len(products)) :
             MetricsResponse(MetricsOfIndex(Get(content_recommender), sample)).body = last.body

\* C28: no query, and no request that merges the two lists, changes a
\* structure of a built instance, and a query asked again on the same
\* store is answered as before.
C28_QueriesRepeatable == [][FrameKept]_vars /\ []SameOnRepeat

(***************************************************************************)
(* The merge called on its own and inside the for-user endpoint            *)
(***************************************************************************)
\* Lists of one score value, fallback lists, and lists of NaN scores
MergeContentRecs == ScoredLists({3 * SimScale}) \cup FallbackLists \cup NaNLists

MergeCollabRecs == ScoredLists({SimScale}) \cup FallbackLists

NextMerge ==
    \/ \E content_recs \in MergeContentRecs, collab_recs \in MergeCollabRecs, limit \in Limits :
           call_combine_recommendations(content_recs, collab_recs, limit)
    \/ \E u \in {1, 999}, n \in Limits, a \in Algorithms, tie \in TieOrders,
          sqltie \in TieOrders,
          fp \in RoundingsFor(collaborative_recommender, interactions) :
           api_get_user_recommendations(u, n, a, "up", tie, sqltie, fp)
    \/ Deliver

SpecMerge == InitService /\ [][NextMerge]_vars

NoIdTwice(list) ==
    \A i, j \in 1..Len(list) : i # j => list[i].product_id # list[j].product_id

\* C29: the merged list holds no product id twice and only ids of its two
\* input lists; the count of a for-user response is the length of its
\* list, which is at most limit.
C29_MergedOnceCounted ==
    /\ last.op = "combine_recommendations"
         => /\ NoIdTwice(last.out)
            /\ \A k \in 1..Len(last.out) :
                   Holds(last.content_recs, last.out[k].product_id)
                     \/ Holds(last.collab_recs, last.out[k].product_id)
    /\ (last.op = "api_for_user" /\ last.status = 200)
         => /\ last.count = Len(last.recommendations)
            /\ last.count <= last.limit

\* a product of both lists is returned, once
C29_Witness ==
    /\ last.op = "combine_recommendations"
    /\ \E k \in 1..Len(last.out) :
           /\ Holds(last.content_recs, last.out[k].product_id)
           /\ Holds(last.collab_recs, last.out[k].product_id)
    /\ Len(last.out) = last.limit

(***************************************************************************)
(* The hybrid algorithm for a user the service knows nothing about         *)
(***************************************************************************)
\* no row of the user in the store, hence none in the matrix
ColdStart(user_id) ==
    /\ HistoryProducts(products, interactions, user_id) = {}
    /\ user_id \notin build_user_item_matrix(interactions).index

\* C30: a hybrid request for a cold-start user is answered with the first
\* `limit` products of the popularity ranking, in that order.
C30_ColdStartHybrid ==
    (last.op = "api_for_user" /\ last.algorithm = "hybrid" /\ last.repository = "up"
       /\ ColdStart(last.user_id))
      => /\ last.status = 200
         /\ \E sqltie \in TieOrders :
                last.recommendations
                  = Formatted(get_popular_products(products, interactions, last.limit, sqltie))

====
